---- MODULE Spec2Model ----
(***************************************************************************)
(* A model of napari-svg: the writer hooks of hook_implementations.py, the *)
(* layer converters of layer_to_xml.py, the shape encoders of              *)
(* _shape_to_xml.py and the document assembler of xml_to_svg.py.           *)
(*                                                                         *)
(* Every hook is a synchronous call: one action per hook, which reads its  *)
(* arguments, runs the converters, assembles the document and writes the   *)
(* file.  The state is the file system, the arguments of the call made and *)
(* what the call returned or raised.                                       *)
(*                                                                         *)
(* Conventions: a path is a sequence of characters; a float that may be    *)
(* NaN is a record [nan, v]; an xml Element is a record [tag, attrs,       *)
(* children]; a value that may have raised is a record with a field exc    *)
(* ("" when nothing was raised).                                           *)
(***************************************************************************)
EXTENDS Integers, Sequences, FiniteSets, TLC

VARIABLES
    fs,         \* the file system: a function from the paths that exist to their content
    fsBefore,   \* the file system when the call was made
    pc,         \* "idle" before the call, "done" after it
    call,       \* the call made: [op, path, layer_types, layer_data], and written,
                \* the arrays of layer_data it wrote into
    ret,        \* what the call returned or raised: [kind, path, exc]
    log,        \* the converters the call ran, in order
    converted,  \* what the converters that did not raise returned, in order
    svg         \* the document string the call assembled (NoSvg when it assembled none)

vars == <<fs, fsBefore, pc, call, ret, log, converted, svg>>

----------------------------------------------------------------------------
(* Bounds of the model *)

MaxLayers == 2      \* layers in one writer call, layer types in one napari_get_writer call
MaxDim == 3         \* length of an image axis
MaxPoints == 2      \* points in a points layer, vectors in a vectors layer
MaxShapes == 3      \* shapes in a shapes layer
MaxZ == 2           \* largest z_index

----------------------------------------------------------------------------
(* Sequences and integers *)

Min2(a, b) == IF a <= b THEN a ELSE b
Max2(a, b) == IF a >= b THEN a ELSE b

SeqsUpTo(S, n) == UNION {[1..k -> S] : k \in 0..n}

Reverse(s) == [i \in 1..Len(s) |-> s[Len(s) + 1 - i]]

RECURSIVE Concat(_)
Concat(ss) == IF ss = <<>> THEN <<>> ELSE Head(ss) \o Concat(Tail(ss))

----------------------------------------------------------------------------
(* Paths: os.path.splitext, and the rule every entry point applies *)

DOT == "."
SEP == "/"
SVG_EXT == <<".", "s", "v", "g">>

Paths ==
    { <<"o">>,                          \* o
      <<"o", ".", "s", "v", "g">>,      \* o.svg
      <<"o", ".", "c", "s", "v">>,      \* o.csv
      <<".", "s", "v", "g">>,           \* .svg   (a hidden file: no extension)
      <<"d", ".", "x", "/", "o">>,      \* d.x/o  (the dot is in the directory)
      <<"d", "/">> }                    \* d/     (the last component is empty)

\* str.rfind, 1-based: 0 when ch does not occur in p
RFind(p, ch) ==
    LET hits == {i \in 1..Len(p) : p[i] = ch}
    IN  IF hits = {} THEN 0 ELSE CHOOSE i \in hits : \A j \in hits : j <= i

\* os.path.splitext(p): <<root, ext>>. The extension starts at the last dot of
\* the last path component; leading dots of the component do not start one.
splitext(p) ==
    LET sepIndex == RFind(p, SEP)
        dotIndex == RFind(p, DOT)
    IN  IF /\ dotIndex > sepIndex
           /\ \E k \in (sepIndex + 1)..(dotIndex - 1) : p[k] # DOT
        THEN <<SubSeq(p, 1, dotIndex - 1), SubSeq(p, dotIndex, Len(p))>>
        ELSE <<p, <<>>>>

\* A faulty path rule: an extension other than '.svg' is written to as it is
PathRule_foreign_accepted(path) ==
    IF splitext(path)[2] = <<>> THEN [ok |-> TRUE, path |-> path \o SVG_EXT]
    ELSE [ok |-> TRUE, path |-> path]

\* A faulty path rule: a path without an extension is written to as it is
PathRule_no_suffix(path) ==
    IF splitext(path)[2] \in {<<>>, SVG_EXT} THEN [ok |-> TRUE, path |-> path]
    ELSE [ok |-> FALSE, path |-> path]

\* ext = os.path.splitext(path)[1]; '' appends '.svg', another extension is refused
PathRule(path) ==
    LET ext == splitext(path)[2]
    IN  IF ext = <<>> THEN [ok |-> TRUE, path |-> path \o SVG_EXT]
        ELSE IF ext # SVG_EXT THEN [ok |-> FALSE, path |-> path]
        ELSE [ok |-> TRUE, path |-> path]

----------------------------------------------------------------------------
(* The file system *)

NoSvg == [tag |-> "none"]
OldContent == [tag |-> "old"]

Exists(f, p) == p \in DOMAIN f

\* with open(path, 'w') as file: file.write(svg)
WriteFile(f, p, content) ==
    [q \in (DOMAIN f) \cup {p} |-> IF q = p THEN content ELSE f[q]]

\* the files that may exist before the call
OldFiles == { <<"o", ".", "s", "v", "g">>, <<"o", ".", "c", "s", "v">> }

----------------------------------------------------------------------------
(* Numbers: numpy floats that may be NaN, and exact fractions *)

Num(v) == [nan |-> FALSE, v |-> v]
NaN == [nan |-> TRUE, v |-> 0]

\* np.nanmin / np.nanmax of two entries: NaN only when both are NaN
nanmin(a, b) ==
    IF a.nan THEN b ELSE IF b.nan THEN a ELSE Num(Min2(a.v, b.v))
nanmax(a, b) ==
    IF a.nan THEN b ELSE IF b.nan THEN a ELSE Num(Max2(a.v, b.v))

\* np.nan_to_num of one entry
nan_to_num(a) == IF a.nan THEN 0 ELSE a.v

\* np.full((2, 2), np.nan)
NanExtrema == << <<NaN, NaN>>, <<NaN, NaN>> >>

\* the exact value num / den of a division the code does in floating point
Frac(num, den) == [num |-> num, den |-> den]

Abs(a) == IF a < 0 THEN -a ELSE a

SeqMin(s) == CHOOSE m \in {s[i] : i \in 1..Len(s)} : \A i \in 1..Len(s) : m <= s[i]
SeqMax(s) == CHOOSE m \in {s[i] : i \in 1..Len(s)} : \A i \in 1..Len(s) : m >= s[i]

----------------------------------------------------------------------------
(* Layer metadata: a dict, read with meta.get(key, default) *)

MetaGet(meta, key, default) == IF key \in DOMAIN meta THEN meta[key] ELSE default

NoMeta == [k \in {} |-> 0]

I2 == << <<1, 0>>, <<0, 1>> >>
I3 == << <<1, 0, 0>>, <<0, 1, 0>>, <<0, 0, 1>> >>

\* A @ B for 2x2 matrices, and A @ v for a 2-vector
MatMul(A, B) ==
    [i \in 1..2 |-> [j \in 1..2 |-> A[i][1] * B[1][j] + A[i][2] * B[2][j]]]
MatVec(A, v) == [i \in 1..2 |-> A[i][1] * v[1] + A[i][2] * v[2]]

\* np.degrees(np.arctan2(y, x)): exact for the multiples of 45 degrees, and
\* kept as the pair (y, x) for every other direction
degrees_arctan2(y, x) ==
    LET exact(d) == [exact |-> TRUE, deg |-> d, y |-> 0, x |-> 0]
    IN  IF y = 0 /\ x >= 0 THEN exact(0)
        ELSE IF y = 0 THEN exact(180)
        ELSE IF x = 0 THEN exact(IF y > 0 THEN 90 ELSE -90)
        ELSE IF Abs(y) = Abs(x)
             THEN exact((IF y > 0 THEN 1 ELSE -1) * (IF x > 0 THEN 45 ELSE 135))
        ELSE [exact |-> FALSE, deg |-> 0, y |-> y, x |-> x]

\* A faulty transform list: the operators in the order they are applied in,
\* not reversed for svg
layer_transforms_in_application_order(meta) ==
    LET scale == Reverse(MetaGet(meta, "scale", <<1, 1>>))
        translate == Reverse(MetaGet(meta, "translate", <<0, 0>>))
        rotmat == MetaGet(meta, "rotate", I2)
        rotate == degrees_arctan2(rotmat[1][2], rotmat[2][2])
        skewy == degrees_arctan2(MetaGet(meta, "shear", <<0>>)[1], 1)
        affine == MetaGet(meta, "affine", I3)
        \* d, b, f, c, a, e = affine[:-1].ravel()
        d == affine[1][1]
        b == affine[1][2]
        f == affine[1][3]
        c == affine[2][1]
        a == affine[2][2]
        e == affine[2][3]
        strs == << [op |-> "scale", args |-> <<scale[1], scale[2]>>],
                   [op |-> "skewY", args |-> <<skewy>>],
                   [op |-> "rotate", args |-> <<rotate>>],
                   [op |-> "translate", args |-> <<translate[1], translate[2]>>],
                   [op |-> "matrix", args |-> <<a, b, c, d, e, f>>] >>
    IN  strs

\* The svg transform list of a layer: the operators in the order matrix,
\* translate, rotate, skewY, scale (svg applies them right to left), with
\* (row, col) swapped to (x, y)
layer_transforms_to_xml_string(meta) ==
    LET scale == Reverse(MetaGet(meta, "scale", <<1, 1>>))
        translate == Reverse(MetaGet(meta, "translate", <<0, 0>>))
        rotmat == MetaGet(meta, "rotate", I2)
        rotate == degrees_arctan2(rotmat[1][2], rotmat[2][2])
        skewy == degrees_arctan2(MetaGet(meta, "shear", <<0>>)[1], 1)
        affine == MetaGet(meta, "affine", I3)
        \* d, b, f, c, a, e = affine[:-1].ravel()
        d == affine[1][1]
        b == affine[1][2]
        f == affine[1][3]
        c == affine[2][1]
        a == affine[2][2]
        e == affine[2][3]
        strs == << [op |-> "scale", args |-> <<scale[1], scale[2]>>],
                   [op |-> "skewY", args |-> <<skewy>>],
                   [op |-> "rotate", args |-> <<rotate>>],
                   [op |-> "translate", args |-> <<translate[1], translate[2]>>],
                   [op |-> "matrix", args |-> <<a, b, c, d, e, f>>] >>
    IN  Reverse(strs)

\* (matrix, offset) with point' = point @ matrix.T + offset
make_linear_matrix_and_offset(meta) ==
    LET rotate == MetaGet(meta, "rotate", I2)
        shear == << <<1, MetaGet(meta, "shear", <<0>>)[1]>>, <<0, 1>> >>
        sc == MetaGet(meta, "scale", <<1, 1>>)
        scale == << <<sc[1], 0>>, <<0, sc[2]>> >>
        translate == MetaGet(meta, "translate", <<0, 0>>)
        affine == MetaGet(meta, "affine", I3)
        linear == << <<affine[1][1], affine[1][2]>>, <<affine[2][1], affine[2][2]>> >>
        affine_tr == <<affine[1][3], affine[2][3]>>
        lt == MatVec(linear, translate)
    IN  [matrix |-> MatMul(linear, MatMul(MatMul(rotate, shear), scale)),
         offset |-> <<lt[1] + affine_tr[1], lt[2] + affine_tr[2]>>]

\* A value a converter returns, or the exception it raises
\* raise e(msg): no element and no extrema are returned
RaiseWith(e, msg) ==
    [exc |-> e, msg |-> msg, xml |-> [tag |-> "none"], extrema |-> NanExtrema]
\* an exception raised by numpy or by python; its message is not modelled
Raise(e) == RaiseWith(e, "")
Return(xml, extrema) == [exc |-> "", msg |-> "", xml |-> xml, extrema |-> extrema]

\* the messages of the checks that data is two dimensional
ImageMessage == "Image must be 2 dimensional"
PointsMessage == "Points must be 2 dimensional to save as svg"
VectorsMessage == "Vectors must be 2 dimensional to save as svg"

\* A faulty check: the channel axis of an rgb image counted as a dimension
MoreThan2D_counting_channels(ndim, rgb) == ndim > 2

\* data.ndim - int(rgb) > 2
MoreThan2D(ndim, rgb) == ndim - (IF rgb THEN 1 ELSE 0) > 2

\* coords @ matrix.T + offset, row by row
Transformed(coords, mo) ==
    [i \in 1..Len(coords) |->
        <<mo.matrix[1][1] * coords[i][1] + mo.matrix[1][2] * coords[i][2] + mo.offset[1],
          mo.matrix[2][1] * coords[i][1] + mo.matrix[2][2] * coords[i][2] + mo.offset[2]>>]

\* np.array([np.min(t, axis=0), np.max(t, axis=0)])
MinMax(t) ==
    << <<Num(SeqMin([i \in 1..Len(t) |-> t[i][1]])), Num(SeqMin([i \in 1..Len(t) |-> t[i][2]]))>>,
       <<Num(SeqMax([i \in 1..Len(t) |-> t[i][1]])), Num(SeqMax([i \in 1..Len(t) |-> t[i][2]]))>> >>

\* The extrema of coords (rows of length ncols) after the transforms of meta.
\* coords @ matrix.T needs two columns, and np.min needs at least one row:
\* numpy raises ValueError otherwise.
extrema_coords(coords, ncols, meta) ==
    IF ncols # 2 \/ Len(coords) = 0 THEN Raise("ValueError")
    ELSE Return([tag |-> "none"],
                MinMax(Transformed(coords, make_linear_matrix_and_offset(meta))))

\* What a converter returns once its extrema is computed: the exception the
\* extrema raised, or the element with the extrema
WithExtrema(extrema, xml) ==
    IF extrema.exc # "" THEN extrema ELSE Return(xml, extrema.extrema)

----------------------------------------------------------------------------
(* xml Elements *)

\* xml.etree.ElementTree.Element(tag, **attrs): no children yet
Element(tag, attrs) == [tag |-> tag, attrs |-> attrs, children |-> <<>>]

\* element.append(child) for each child of a sequence
AppendAll(element, items) == [element EXCEPT !.children = @ \o items]

\* Iterating an Element (for x in element, list += element) yields its children
IterElement(element) == element.children

\* f'rgb{tuple(map(int, (255 * color).astype(int)[:3]))}': the channels are
\* floats in [0, 1], given here as exact fractions; astype(int) truncates
rgb_string(color) ==
    [fmt |-> "rgb",
     r |-> (255 * color[1].num) \div color[1].den,
     g |-> (255 * color[2].num) \div color[2].den,
     b |-> (255 * color[3].num) \div color[3].den]

One == Frac(1, 1)
Zero == Frac(0, 1)
White == <<One, One, One, One>>     \* a row of np.ones((n, 4))
Black == <<Zero, Zero, Zero, One>>  \* a row of np.zeros((n, 4)) with [:, 3] = 1

Repeat(x, n) == [i \in 1..n |-> x]

----------------------------------------------------------------------------
(* image_to_xml (labels_to_xml is the same function) *)

\* np.squeeze: the axes of length 1 are dropped
squeeze(shape) == SelectSeq(shape, LAMBDA d : d # 1)

\* np.array([[0, 0], list(image.shape)]) is a 2x2 array only for a 2-D image;
\* for any other image the rows differ in length and no extrema is computed
extrema_image(shape, meta) ==
    IF Len(shape) # 2 THEN Raise("ValueError")
    ELSE extrema_coords(<< <<0, 0>>, <<shape[1], shape[2]>> >>, 2, meta)

\* data is [levels |-> the shapes of the arrays]: one array, or the arrays of
\* a multiscale pyramid, of which the last is used
\* np.clip(v, lo, hi): np.minimum(np.maximum(v, lo), hi)
clip(v, lo, hi) == Min2(Max2(v, lo), hi)

\* A faulty normalisation: the pixel is not clipped to the limits
normalized_without_clip(v, contrast_limits) ==
    IF contrast_limits[2] - contrast_limits[1] # 0
    THEN Frac(v - contrast_limits[1], contrast_limits[2] - contrast_limits[1])
    ELSE Frac(v - contrast_limits[1], 1)

\* What the colormap is given for the pixel v: clipped to the limits, less
\* the lower limit, and divided by the range unless the range is 0
normalized(v, contrast_limits) ==
    IF contrast_limits[2] - contrast_limits[1] # 0
    THEN Frac(clip(v, contrast_limits[1], contrast_limits[2]) - contrast_limits[1],
              contrast_limits[2] - contrast_limits[1])
    ELSE Frac(clip(v, contrast_limits[1], contrast_limits[2]) - contrast_limits[1], 1)

\* The image that is encoded as png: the pixels as they are for rgb, else
\* what the colormap maps.  data.pixels are the values of some pixels of the
\* image (none when the values play no part).
mapped_image(data, meta) ==
    LET pixels == MetaGet(data, "pixels", <<>>)
    IN  [fmt |-> "data:image/png;base64",
         pixels |-> IF MetaGet(meta, "rgb", FALSE)
                    THEN [i \in 1..Len(pixels) |-> Frac(pixels[i], 1)]
                    ELSE [i \in 1..Len(pixels) |->
                            normalized(pixels[i],
                                       MetaGet(meta, "contrast_limits", <<0, 1>>))]]

image_to_xml(data, meta) ==
    LET multiscale == MetaGet(meta, "multiscale", FALSE)
        rgb == MetaGet(meta, "rgb", FALSE)
        opacity == MetaGet(meta, "opacity", 1)
        \* data[-1] of a pyramid; one array is used as it is
        image == squeeze(data.levels[Len(data.levels)])
        ndim == Len(image)
    IN  IF ~multiscale /\ Len(data.levels) # 1 THEN Raise("ValueError")
        ELSE IF MoreThan2D(ndim, rgb) THEN RaiseWith("ValueError", ImageMessage)
        ELSE WithExtrema(extrema_image(image, meta),
                         Element("image",
                                 [width |-> image[2],
                                  height |-> image[1],
                                  opacity |-> opacity,
                                  transform |-> layer_transforms_to_xml_string(meta),
                                  href |-> mapped_image(data, meta)]))

----------------------------------------------------------------------------
(* points_to_xml *)

extrema_points(data, meta) == extrema_coords(data.points, data.ncols, meta)

\* data is [points |-> the rows of the array, ncols |-> data.shape[1]]
\* A numpy array (or a scalar, ndim 0) of metadata: its dtype, its number of
\* axes and its entries.  An array of two axes has the shape (n, 2) and its
\* entries are given row after row.
NdArray(dtype, ndim, v) == [dtype |-> dtype, ndim |-> ndim, v |-> v]

\* size = meta['size'], or np.ones(n); the mean over axis 1 when it has two axes
PointSizes(meta, n) ==
    LET size == MetaGet(meta, "size", NdArray("float", 1, Repeat(1, n)))
    IN  IF size.ndim = 2
        THEN NdArray("float", 1,
                     [i \in 1..(Len(size.v) \div 2) |->
                        Frac(size.v[2 * i - 1] + size.v[2 * i], 2)])
        ELSE NdArray(size.dtype, 1, [i \in 1..Len(size.v) |-> Frac(size.v[i], 1)])

\* meta['border_width'], or meta['edge_width'], or np.ones((n,))
StrokeWidthOf(meta, n) ==
    IF "border_width" \in DOMAIN meta THEN meta["border_width"]
    ELSE MetaGet(meta, "edge_width", NdArray("float", 1, Repeat(1, n)))

\* A faulty broadcast: an array that has n entries already is used as it is,
\* so that the widths are the caller's array
Broadcast_without_copy(a, n) ==
    IF a.ndim = 0
    THEN [exc |-> "", dtype |-> a.dtype, v |-> Repeat(a.v, n), buffer |-> "own"]
    ELSE IF Len(a.v) = n
    THEN [exc |-> "", dtype |-> a.dtype, v |-> a.v, buffer |-> "meta"]
    ELSE IF Len(a.v) = 1
    THEN [exc |-> "", dtype |-> a.dtype, v |-> Repeat(a.v[1], n), buffer |-> "own"]
    ELSE [exc |-> "ValueError", dtype |-> a.dtype, v |-> <<>>, buffer |-> "own"]

\* np.broadcast_to(stroke_width, (n,)).copy(): a scalar or one entry is
\* repeated, n entries are kept, any other length raises ValueError.  copy()
\* gives the widths a buffer of their own, whatever array they came from
Broadcast(a, n) ==
    IF a.ndim = 0
    THEN [exc |-> "", dtype |-> a.dtype, v |-> Repeat(a.v, n), buffer |-> "own"]
    ELSE IF Len(a.v) = n
    THEN [exc |-> "", dtype |-> a.dtype, v |-> a.v, buffer |-> "own"]
    ELSE IF Len(a.v) = 1
    THEN [exc |-> "", dtype |-> a.dtype, v |-> Repeat(a.v[1], n), buffer |-> "own"]
    ELSE [exc |-> "ValueError", dtype |-> a.dtype, v |-> <<>>, buffer |-> "own"]

\* stroke_width *= size when the width is relative.  The product is written
\* back into the array of widths: numpy refuses to write floats into an
\* array of integers (UFuncTypeError), and sizes of another length do not
\* broadcast (ValueError)
StrokeWidths(width, size, relative) ==
    IF width.exc # "" THEN width
    ELSE IF ~relative
    THEN [exc |-> "", dtype |-> width.dtype,
          v |-> [i \in 1..Len(width.v) |-> Frac(width.v[i], 1)]]
    ELSE IF Len(size.v) \notin {Len(width.v), 1}
    THEN [exc |-> "ValueError", dtype |-> width.dtype, v |-> <<>>]
    ELSE IF width.dtype = "int" /\ size.dtype = "float"
    THEN [exc |-> "UFuncTypeError", dtype |-> width.dtype, v |-> <<>>]
    ELSE [exc |-> "", dtype |-> width.dtype,
          v |-> [i \in 1..Len(width.v) |->
                    Frac(width.v[i] * size.v[IF Len(size.v) = 1 THEN 1 ELSE i].num,
                         size.v[IF Len(size.v) = 1 THEN 1 ELSE i].den)]]

\* the circles of points_to_xml, for the sizes and the stroke widths
Circles(data, meta, size, stroke_width) ==
    LET n == Len(data.points)
        face_color == MetaGet(meta, "face_color", Repeat(White, n))
        stroke_color ==
            IF "border_color" \in DOMAIN meta THEN meta["border_color"]
            ELSE MetaGet(meta, "edge_color", Repeat(Black, n))
        opacity == MetaGet(meta, "opacity", 1)
        \* zip stops at the shortest of its arguments
        m == Min2(Min2(Min2(n, Len(size.v)), Len(stroke_width.v)),
                  Min2(Len(face_color), Len(stroke_color)))
    IN  [i \in 1..m |->
            Element("circle",
                    [cx |-> data.points[i][2],
                     cy |-> data.points[i][1],
                     r |-> Frac(size.v[i].num, 2 * size.v[i].den),
                     stroke |-> rgb_string(stroke_color[i]),
                     fill |-> rgb_string(face_color[i]),
                     stroke_width |-> stroke_width.v[i],
                     opacity |-> opacity])]

\* points_to_xml after its check of the dimensions: the extrema, the stroke
\* widths, then the group of circles
PointsGroup(data, meta, extrema, stroke_width) ==
    IF extrema.exc # "" THEN extrema
    ELSE IF stroke_width.exc # "" THEN Raise(stroke_width.exc)
    ELSE Return(AppendAll(Element("g", [transform |->
                                           layer_transforms_to_xml_string(meta)]),
                          Circles(data, meta, PointSizes(meta, Len(data.points)),
                                  stroke_width)),
                extrema.extrema)

points_to_xml(data, meta) ==
    IF data.ncols > 2 THEN RaiseWith("ValueError", PointsMessage)
    ELSE PointsGroup(data, meta, extrema_points(data, meta),
                     StrokeWidths(Broadcast(StrokeWidthOf(meta, Len(data.points)),
                                            Len(data.points)),
                                  PointSizes(meta, Len(data.points)),
                                  \/ MetaGet(meta, "border_width_is_relative", FALSE)
                                  \/ MetaGet(meta, "edge_width_is_relative", FALSE)))

----------------------------------------------------------------------------
(* vectors_to_xml *)

\* data is [vectors |-> the vectors, each <<origin, direction>>, ncols |-> data.shape[2]]
\* origin + length * direction, for a length Frac(num, den)
Projected(origin, length, direction) ==
    Frac(length.den * origin + length.num * direction, length.den)

\* Storing the number f in an array of the type dtype: an integer array
\* drops the fraction (towards zero).  A float array keeps the number; the
\* model holds it as an integer, so a float array is used only with lengths
\* that give whole numbers.
Stored(f, dtype) ==
    IF dtype = "int" /\ f.num < 0 THEN -((-f.num) \div f.den)
    ELSE f.num \div f.den

\* start_ends = np.empty(..., dtype=vectors.dtype), filled with the origins
\* and then with the projected ends
extrema_vectors(data, meta) ==
    LET length == MetaGet(meta, "length", Frac(1, 1))
        n == Len(data.vectors)
        starts == [i \in 1..n |-> data.vectors[i][1]]
        ends == [i \in 1..n |->
                    [k \in 1..data.ncols |->
                        Stored(Projected(data.vectors[i][1][k], length,
                                         data.vectors[i][2][k]), data.dtype)]]
    IN  extrema_coords(starts \o ends, data.ncols, meta)

vectors_to_xml(data, meta) ==
    LET n == Len(data.vectors)
        edge_color == MetaGet(meta, "edge_color", Repeat(Black, n))
        edge_width == MetaGet(meta, "edge_width", 1)
        length == MetaGet(meta, "length", Frac(1, 1))
        opacity == MetaGet(meta, "opacity", 1)
        m == Min2(n, Len(edge_color))
        \* x1 = v[0, -2], y1 = v[0, -1], x2 = x1 + length * v[1, -2],
        \* y2 = y1 + length * v[1, -1]; Element('line', x1=y1, y1=x1, x2=y2, y2=x2)
        line(i) ==
            Element("line",
                    [x1 |-> data.vectors[i][1][2],
                     y1 |-> data.vectors[i][1][1],
                     x2 |-> Projected(data.vectors[i][1][2], length, data.vectors[i][2][2]),
                     y2 |-> Projected(data.vectors[i][1][1], length, data.vectors[i][2][1]),
                     stroke_width |-> edge_width,
                     opacity |-> opacity,
                     stroke |-> rgb_string(edge_color[i])])
    IN  IF data.ncols > 2 THEN RaiseWith("ValueError", VectorsMessage)
        ELSE WithExtrema(extrema_vectors(data, meta),
                         AppendAll(Element("g", [transform |->
                                                    layer_transforms_to_xml_string(meta)]),
                                   [i \in 1..m |-> line(i)]))

----------------------------------------------------------------------------
(* The shape encoders of _shape_to_xml.py.  A shape is its vertex array: a *)
(* sequence of (row, col) vertices.  The geometry of a rectangle and of an *)
(* ellipse is computed exactly, in quarters: an attribute Frac(n, 4) is    *)
(* the number n / 4.                                                       *)

\* data.shape
Shape(data) == <<Len(data), IF Len(data) = 0 THEN 0 ELSE Len(data[1])>>

RaiseElement(e) == [exc |-> e, xml |-> [tag |-> "none"]]
ReturnElement(xml) == [exc |-> "", xml |-> xml]

\* cos and sin of the angles a first edge parallel to an axis gives
CosDeg(d) == CASE d = 0 -> 1 [] d = 90 -> 0 [] d = 180 -> -1 [] d = -90 -> 0
SinDeg(d) == CASE d = 0 -> 0 [] d = 90 -> 1 [] d = 180 -> 0 [] d = -90 -> -1

\* data[:, ::-1]: the vertices as (x, y)
Flip(data) == [i \in 1..Len(data) |-> <<data[i][2], data[i][1]>>]

\* offset = data[1] - data[0]; angle = -arctan2(offset[0], -offset[1]).  The
\* result is -angle in degrees: what the encoders write in rotate(...) and
\* compare with zero.
Turn(xy) == degrees_arctan2(xy[2][1] - xy[1][1], -(xy[2][2] - xy[1][2]))

IsZero(turn) == turn.exact /\ turn.deg = 0

\* cos and sin of -angle.  They are rational for a first edge parallel to an
\* axis, and for one whose length is a whole number (a 3-4-5 edge)
Hypot(turn) ==
    CHOOSE h \in 1..(Abs(turn.y) + Abs(turn.x)) : h * h = turn.y * turn.y + turn.x * turn.x
TurnCos(turn) ==
    IF turn.exact THEN Frac(CosDeg(turn.deg), 1) ELSE Frac(turn.x, Hypot(turn))
TurnSin(turn) ==
    IF turn.exact THEN Frac(SinDeg(turn.deg), 1) ELSE Frac(turn.y, Hypot(turn))

\* cen = data.mean(axis=0), times 4
Cen4(xy) == <<xy[1][1] + xy[2][1] + xy[3][1] + xy[4][1],
              xy[1][2] + xy[2][2] + xy[3][2] + xy[4][2]>>

\* (data - cen) @ rotation.T + cen, times 4, with
\* rotation = [[cos(angle), sin(angle)], [-sin(angle), cos(angle)]]
Unturned(xy, turn, cen) ==
    [i \in 1..4 |->
        << (TurnCos(turn).num * (4 * xy[i][1] - cen[1])
             + TurnSin(turn).num * (4 * xy[i][2] - cen[2])) \div TurnCos(turn).den
             + cen[1],
           ((-TurnSin(turn).num) * (4 * xy[i][1] - cen[1])
             + TurnCos(turn).num * (4 * xy[i][2] - cen[2])) \div TurnCos(turn).den
             + cen[2] >>]

Derotated(xy, turn, cen) ==
    [rotated |-> ~IsZero(turn),
     turn |-> turn,
     cen |-> cen,
     coords |-> IF ~IsZero(turn) THEN Unturned(xy, turn, cen)
                ELSE [i \in 1..4 |-> <<4 * xy[i][1], 4 * xy[i][2]>>]]

DerotateXY(xy) == Derotated(xy, Turn(xy), Cen4(xy))

\* What ellipse_to_xml and rectangle_to_xml share: the vertices as (x, y),
\* the angle of the first edge, and the vertices turned back about the
\* centroid when the angle is not zero.  Coordinates are times 4.
Derotate(data) == DerotateXY(Flip(data))

RotateAbout(turn, cen) ==
    [op |-> "rotate", args |-> <<turn, Frac(cen[1], 4), Frac(cen[2], 4)>>]

\* size = abs(data[2] - data[0]), times 4
Size4(d) == <<Abs(d.coords[3][1] - d.coords[1][1]),
              Abs(d.coords[3][2] - d.coords[1][2])>>

\* cen is assigned only in the branch of a non-zero angle, and read after it
EllipseElement(d, svg_props) ==
    IF ~d.rotated THEN RaiseElement("UnboundLocalError")
    ELSE ReturnElement(Element("ellipse",
            [cx |-> Frac(d.cen[1], 4), cy |-> Frac(d.cen[2], 4),
             rx |-> Frac(Size4(d)[1], 8), ry |-> Frac(Size4(d)[2], 8)]
            @@ [transform |-> RotateAbout(d.turn, d.cen)] @@ svg_props))

ellipse_to_xml(data, svg_props) ==
    IF Shape(data) # <<4, 2>> THEN RaiseElement("ValueError")
    ELSE EllipseElement(Derotate(data), svg_props)

\* A faulty encoder: more than two vertices are cut to the first two
line_to_xml_truncating(data, svg_props) ==
    IF Len(data) < 2 \/ Shape(data)[2] # 2 THEN RaiseElement("ValueError")
    ELSE ReturnElement(Element("line",
            [x1 |-> data[1][2], y1 |-> data[1][1],
             x2 |-> data[2][2], y2 |-> data[2][1]] @@ svg_props))

line_to_xml(data, svg_props) ==
    IF Shape(data) # <<2, 2>> THEN RaiseElement("ValueError")
    ELSE
        LET x1 == data[1][1]
            y1 == data[1][2]
            x2 == data[2][1]
            y2 == data[2][2]
        IN  ReturnElement(Element("line",
                [x1 |-> y1, y1 |-> x1, x2 |-> y2, y2 |-> x2] @@ svg_props))

\* points = ' '.join(f'{d[1]},{d[0]}' for d in data)
PointsAttr(data) == [i \in 1..Len(data) |-> <<data[i][2], data[i][1]>>]

\* A faulty encoder: the fill of the style properties is kept
path_to_xml_keeping_fill(data, svg_props) ==
    IF Shape(data)[2] # 2 THEN RaiseElement("ValueError")
    ELSE ReturnElement(Element("polyline",
            [points |-> PointsAttr(data)] @@ svg_props))

path_to_xml(data, svg_props) ==
    IF Shape(data)[2] # 2 THEN RaiseElement("ValueError")
    ELSE ReturnElement(Element("polyline",
            [points |-> PointsAttr(data)]
            @@ [fill |-> [fmt |-> "none"]] @@ svg_props))

polygon_to_xml(data, svg_props) ==
    IF Shape(data)[2] # 2 THEN RaiseElement("ValueError")
    ELSE ReturnElement(Element("polygon",
            [points |-> PointsAttr(data)] @@ svg_props))

\* A faulty geometry: x, y taken from the first vertex, not from the minimum
RectGeometry_from_first_vertex(d) ==
    [x |-> Frac(d.coords[1][1], 4),
     y |-> Frac(d.coords[1][2], 4),
     width |-> Frac(Size4(d)[1], 4),
     height |-> Frac(Size4(d)[2], 4)]

\* x, y = data.min(axis=0); width, height = size
RectGeometry(d) ==
    [x |-> Frac(SeqMin([i \in 1..4 |-> d.coords[i][1]]), 4),
     y |-> Frac(SeqMin([i \in 1..4 |-> d.coords[i][2]]), 4),
     width |-> Frac(Size4(d)[1], 4),
     height |-> Frac(Size4(d)[2], 4)]

RectElement(d, svg_props) ==
    ReturnElement(Element("rect",
        IF d.rotated
        THEN RectGeometry(d) @@ [transform |-> RotateAbout(d.turn, d.cen)] @@ svg_props
        ELSE RectGeometry(d) @@ svg_props))

rectangle_to_xml(data, svg_props) ==
    IF Shape(data) # <<4, 2>> THEN RaiseElement("ValueError")
    ELSE RectElement(Derotate(data), svg_props)

ShapeTypes == {"ellipse", "line", "path", "polygon", "rectangle"}

\* shape_type_to_xml[st](s, props)
shape_to_xml(st, data, svg_props) ==
    CASE st = "ellipse" -> ellipse_to_xml(data, svg_props)
      [] st = "line" -> line_to_xml(data, svg_props)
      [] st = "path" -> path_to_xml(data, svg_props)
      [] st = "polygon" -> polygon_to_xml(data, svg_props)
      [] st = "rectangle" -> rectangle_to_xml(data, svg_props)
      [] OTHER -> RaiseElement("KeyError")

----------------------------------------------------------------------------
(* shapes_to_xml *)

\* The orders of the indices 1..n
Orders(n) ==
    {o \in [1..n -> 1..n] : \A i, j \in 1..n : i # j => o[i] # o[j]}

\* A faulty order: descending
np_argsort_descending(z_index) ==
    {o \in Orders(Len(z_index)) :
        \A k, l \in 1..Len(z_index) : k < l => z_index[o[k]] >= z_index[o[l]]}

\* np.argsort(z_index): the indices in ascending order of z_index.  The
\* default sort kind is not stable: which of two equal entries comes first is
\* the choice of the numpy build, so the result is any order that sorts z_index.
np_argsort(z_index) ==
    {o \in Orders(Len(z_index)) :
        \A k, l \in 1..Len(z_index) : k < l => z_index[o[k]] <= z_index[o[l]]}

\* z_index of a shapes layer
z_index_of(data, meta) == MetaGet(meta, "z_index", Repeat(0, Len(data.shapes)))

\* np.concatenate(shapes_data, axis=0) needs arrays of one column count
extrema_shapes(shapes_data, meta) ==
    LET ncols == Shape(shapes_data[1])[2]
    IN  IF \E i \in 1..Len(shapes_data) : Shape(shapes_data[i])[2] # ncols
        THEN Raise("ValueError")
        ELSE extrema_coords(Concat(shapes_data), ncols, meta)

\* The first exception the shape encoders raise ("" when none does)
FirstRaise(raw_xml_list) ==
    IF \A i \in 1..Len(raw_xml_list) : raw_xml_list[i].exc = "" THEN ""
    ELSE raw_xml_list[CHOOSE i \in 1..Len(raw_xml_list) :
            /\ raw_xml_list[i].exc # ""
            /\ \A j \in 1..(i - 1) : raw_xml_list[j].exc = ""].exc

\* for i in z_order: layer_xml.append(raw_xml_list[i])
ShapesGroup(raw_xml_list, z_order, transform) ==
    IF FirstRaise(raw_xml_list) # "" THEN Raise(FirstRaise(raw_xml_list))
    ELSE IF Len(z_order) > Len(raw_xml_list) THEN Raise("IndexError")
    ELSE Return(AppendAll(Element("g", [transform |-> transform]),
                          [k \in 1..Len(z_order) |-> raw_xml_list[z_order[k]].xml]),
                NanExtrema)

\* The result of shapes_to_xml from the extrema and the group: the extrema
\* is computed first
ShapesResult(extrema, group) ==
    IF extrema.exc # "" THEN extrema
    ELSE IF group.exc # "" THEN group
    ELSE Return(group.xml, extrema.extrema)

\* raw_xml_list: what the encoder of each shape gives, in input order.
\* data is [shapes |-> the list of vertex arrays]
raw_xml_list(data, meta) ==
    LET shapes == data.shapes
        n == Len(shapes)
        face_color == MetaGet(meta, "face_color", Repeat(White, n))
        edge_color == MetaGet(meta, "edge_color", Repeat(Black, n))
        edge_width == MetaGet(meta, "edge_width", Repeat(1, n))
        opacity == MetaGet(meta, "opacity", 1)
        shape_type == MetaGet(meta, "shape_type", Repeat("rectangle", n))
        \* zip stops at the shortest of its arguments
        m == Min2(Min2(n, Len(shape_type)),
                  Min2(Len(face_color), Min2(Len(edge_color), Len(edge_width))))
    IN  [i \in 1..m |->
            shape_to_xml(shape_type[i], shapes[i],
                         [stroke_width |-> edge_width[i],
                          opacity |-> opacity,
                          fill |-> rgb_string(face_color[i]),
                          stroke |-> rgb_string(edge_color[i])])]

\* z_order is what np.argsort(z_index) returns in this call
shapes_to_xml(data, meta, z_order) ==
    ShapesResult(
        IF Len(data.shapes) > 0 THEN extrema_shapes(data.shapes, meta)
        ELSE Return([tag |-> "none"], NanExtrema),
        ShapesGroup(raw_xml_list(data, meta), z_order,
                    layer_transforms_to_xml_string(meta)))

----------------------------------------------------------------------------
(* xml_to_svg: the document *)

\* A faulty assembler: an axis of extent zero is left at zero
xml_to_svg_zero_extent(xml_list, extrema) ==
    LET e == [i \in 1..2 |-> [j \in 1..2 |-> nan_to_num(extrema[i][j])]]
        corner == e[1]
        diff == [j \in 1..2 |-> e[2][j] - e[1][j]]
        shape == diff
        xml == Element("svg",
                       [height |-> shape[1],
                        width |-> shape[2],
                        version |-> "1.1",
                        xmlns |-> "http://www.w3.org/2000/svg",
                        xmlns_xlink |-> "http://www.w3.org/1999/xlink"])
        transform == [op |-> "translate", args |-> <<-corner[2], -corner[1]>>]
        xml_transform == AppendAll(Element("g", [transform |-> transform]),
                                   IterElement(xml_list))
    IN  [tag |-> "document",
         header |-> "<?xml version=1.0 standalone=no?><!DOCTYPE svg>",
         root |-> AppendAll(xml, <<xml_transform>>)]

\* xml_list is what the caller passes: the loop  for x in xml_list  takes
\* the items of a list, and the children of an Element
xml_to_svg(xml_list, extrema) ==
    LET e == [i \in 1..2 |-> [j \in 1..2 |-> nan_to_num(extrema[i][j])]]
        corner == e[1]
        diff == [j \in 1..2 |-> e[2][j] - e[1][j]]
        \* shape[shape == 0] = 1
        shape == [j \in 1..2 |-> IF diff[j] = 0 THEN 1 ELSE diff[j]]
        xml == Element("svg",
                       [height |-> shape[1],
                        width |-> shape[2],
                        version |-> "1.1",
                        xmlns |-> "http://www.w3.org/2000/svg",
                        xmlns_xlink |-> "http://www.w3.org/1999/xlink"])
        transform == [op |-> "translate", args |-> <<-corner[2], -corner[1]>>]
        xml_transform == AppendAll(Element("g", [transform |-> transform]),
                                   IterElement(xml_list))
    IN  [tag |-> "document",
         header |-> "<?xml version=1.0 standalone=no?><!DOCTYPE svg>",
         root |-> AppendAll(xml, <<xml_transform>>)]

----------------------------------------------------------------------------
(* writer: the layers of a list in one document *)

\* A python list of elements; like an Element, iterating it yields its items
PyList(items) == [tag |-> "list", attrs |-> [k \in {} |-> 0], children |-> items]

\* A faulty set of kinds: one kind too many
supported_layers_and_surface ==
    {"image", "points", "labels", "shapes", "vectors", "surface"}

supported_layers == {"image", "points", "labels", "shapes", "vectors"}

\* eval(ld[2] + '_to_xml(ld[0], ld[1])'): the names image_to_xml,
\* points_to_xml, shapes_to_xml, vectors_to_xml and labels_to_xml are defined
\* in the module; any other name raises NameError
eval_to_xml(ld, z_order) ==
    CASE ld.kind \in {"image", "labels"} -> image_to_xml(ld.data, ld.meta)
      [] ld.kind = "points" -> points_to_xml(ld.data, ld.meta)
      [] ld.kind = "shapes" -> shapes_to_xml(ld.data, ld.meta, z_order)
      [] ld.kind = "vectors" -> vectors_to_xml(ld.data, ld.meta)
      [] OTHER -> Raise("NameError")

\* The name of the converter a layer kind reaches ("" when there is none)
ConverterOf(kind) == IF kind \in supported_layers THEN kind \o "_to_xml" ELSE ""

\* What np.argsort may return in the conversion of each layer of a list
\* (the empty order for a layer that is not a shapes layer)
ArgsortsOf(ld) ==
    IF ld.kind = "shapes" THEN np_argsort(z_index_of(ld.data, ld.meta)) ELSE {<<>>}

ArgsortsOfAll(layer_data) ==
    {zs \in [1..Len(layer_data) -> UNION {ArgsortsOf(layer_data[i]) : i \in 1..Len(layer_data)}] :
        \A i \in 1..Len(layer_data) : zs[i] \in ArgsortsOf(layer_data[i])}

\* A faulty fold: np.min and np.max in place of np.nanmin and np.nanmax, so
\* that a NaN entry makes the result NaN
merge_extrema_nan_propagating(full_extrema, extrema) ==
    << [j \in 1..2 |-> IF full_extrema[1][j].nan \/ extrema[1][j].nan THEN NaN
                       ELSE nanmin(full_extrema[1][j], extrema[1][j])],
       [j \in 1..2 |-> IF full_extrema[2][j].nan \/ extrema[2][j].nan THEN NaN
                       ELSE nanmax(full_extrema[2][j], extrema[2][j])] >>

\* the fold of the extrema of two layers
merge_extrema(full_extrema, extrema) ==
    << [j \in 1..2 |-> nanmin(full_extrema[1][j], extrema[1][j])],
       [j \in 1..2 |-> nanmax(full_extrema[2][j], extrema[2][j])] >>

\* full_extrema after the layers 1..n
RECURSIVE fold_extrema(_, _)
fold_extrema(results, n) ==
    IF n = 0 THEN NanExtrema
    ELSE IF n = 1 THEN results[1].extrema
    ELSE merge_extrema(fold_extrema(results, n - 1), results[n].extrema)

\* The index of the first layer whose conversion raises (0 when none does)
\* The arrays of the caller that the converters of the layers 1..last write
\* into, each named by its layer and its key in meta.  The one write in place
\* of a converter that can reach an argument is stroke_width *= size in
\* points_to_xml, which writes into the buffer of the broadcast widths; it is
\* reached after the check of the dimensions and writes nothing when it raises.
\* Every other write in place (stroke_color[:, 3] = 1, start_ends[...] = ...,
\* props[...] = ...) is into an array or dict the converter has just made, and
\* image = np.clip(...) rebinds the name.
WrittenInPlace(layer_data, last) ==
    { w \in (1..last) \X {"border_width", "edge_width"} :
        /\ layer_data[w[1]].kind = "points"
        /\ layer_data[w[1]].data.ncols <= 2
        /\ w[2] \in DOMAIN layer_data[w[1]].meta
        /\ w[2] = "edge_width" => "border_width" \notin DOMAIN layer_data[w[1]].meta
        /\ \/ MetaGet(layer_data[w[1]].meta, "border_width_is_relative", FALSE)
           \/ MetaGet(layer_data[w[1]].meta, "edge_width_is_relative", FALSE)
        /\ Broadcast(layer_data[w[1]].meta[w[2]],
                     Len(layer_data[w[1]].data.points)).buffer = "meta"
        /\ StrokeWidths(Broadcast(layer_data[w[1]].meta[w[2]],
                                  Len(layer_data[w[1]].data.points)),
                        PointSizes(layer_data[w[1]].meta,
                                   Len(layer_data[w[1]].data.points)),
                        TRUE).exc = "" }

FirstRaising(results) ==
    IF \A i \in 1..Len(results) : results[i].exc = "" THEN 0
    ELSE CHOOSE i \in 1..Len(results) :
            /\ results[i].exc # ""
            /\ \A j \in 1..(i - 1) : results[j].exc = ""

\* The converters run up to the layer last
Reached(layer_data, last) ==
    SelectSeq([i \in 1..last |-> ConverterOf(layer_data[i].kind)], LAMBDA c : c # "")

\* The loop of writer, from what each layer's conversion gives.  It stops at
\* the first layer whose conversion raises; ran are the converters run,
\* converted is what they returned, xml
\* is full_xml_list and extrema is full_extrema: the extrema of the first
\* layer, folded with those of every later one.
loop_result(layer_data, results, raising) ==
    IF raising # 0
    THEN [exc |-> results[raising].exc, msg |-> results[raising].msg,
          xml |-> PyList(<<>>),
          extrema |-> NanExtrema, ran |-> Reached(layer_data, raising),
          written |-> WrittenInPlace(layer_data, raising),
          converted |-> [i \in 1..(raising - 1) |-> results[i].xml]]
    ELSE [exc |-> "", msg |-> "",
          \* full_xml_list += xml_list, for each layer
          xml |-> PyList(Concat([i \in 1..Len(results) |-> IterElement(results[i].xml)])),
          extrema |-> fold_extrema(results, Len(results)),
          ran |-> Reached(layer_data, Len(results)),
          written |-> WrittenInPlace(layer_data, Len(results)),
          converted |-> [i \in 1..Len(results) |-> results[i].xml]]

loop_over(layer_data, results) ==
    loop_result(layer_data, results, FirstRaising(results))

writer_loop(layer_data, z_orders) ==
    loop_over(layer_data,
              [i \in 1..Len(layer_data) |-> eval_to_xml(layer_data[i], z_orders[i])])

----------------------------------------------------------------------------
(* The arguments the calls are made with *)

Layer(kind, data, meta) == [kind |-> kind, data |-> data, meta |-> meta]

\* Images: every array of one to three axes, and one multiscale pyramid
ImageShapes == UNION {[1..k -> 1..MaxDim] : k \in 1..3}
Pyramid == [levels |-> << <<MaxDim, MaxDim>>, <<2, 2>> >>]
ImageMetas == { NoMeta,
                [rgb |-> TRUE],
                [scale |-> <<2, 3>>, translate |-> <<5, -5>>] }
\* metadata with every transform: a quarter turn, a shear (negative too), a
\* scale, a translation and an affine matrix with off-diagonal terms
QuarterTurn == << <<0, -1>>, <<1, 0>> >>
Affine == << <<1, 2, 3>>, <<-1, 1, 0>>, <<0, 0, 1>> >>
TransformMetas ==
    { [translate |-> <<5, -5>>],
      [shear |-> <<-1>>],
      [affine |-> Affine],
      [rotate |-> QuarterTurn, shear |-> <<2>>, scale |-> <<2, 3>>,
       translate |-> <<1, -2>>, affine |-> Affine] }
\* images with pixel values below, within and above the contrast limits,
\* and limits with a range of 0
PixelSamples == <<-1, 0, 1, 2, 3, 4>>
ContrastLimits == { <<0, 1>>, <<1, 3>>, <<2, 2>>, <<-1, 2>>, <<0, 4>> }
ContrastInputs ==
    {[data |-> [levels |-> << <<2, 3>> >>, pixels |-> PixelSamples],
      meta |-> [contrast_limits |-> cl]] : cl \in ContrastLimits}
    \cup {[data |-> [levels |-> << <<2, 3>> >>, pixels |-> PixelSamples], meta |-> NoMeta]}

ImageInputs ==
    {[data |-> [levels |-> <<sh>>], meta |-> m] : sh \in ImageShapes, m \in ImageMetas}
    \cup ContrastInputs
    \cup {[data |-> Pyramid, meta |-> [multiscale |-> TRUE]]}
    \cup {[data |-> [levels |-> <<sh>>], meta |-> m] :
            sh \in [1..2 -> 2..MaxDim], m \in TransformMetas}

\* Points: up to MaxPoints points of two columns, and one array of three columns
PointSamples == { <<0, 0>>, <<0, 2>>, <<2, 1>> }
Points3D == [points |-> << <<0, 1, 2>> >>, ncols |-> 3]
PointMetas(n) ==
    { NoMeta,
      [size |-> NdArray("float", 1, [i \in 1..n |-> 4 * i + 12])],
      [size |-> NdArray("float", 1, [i \in 1..n |-> 3]), scale |-> <<2, 3>>],
      \* a scalar stroke width, absolute and relative
      [edge_width |-> NdArray("float", 0, 2)],
      [edge_width |-> NdArray("float", 0, 2), edge_width_is_relative |-> TRUE,
       size |-> NdArray("float", 1, [i \in 1..n |-> 2 * i + 1])],
      \* a stroke width per point, relative to sizes with two axes
      [border_width |-> NdArray("float", 1, [i \in 1..n |-> i + 1]),
       border_width_is_relative |-> TRUE,
       size |-> NdArray("float", 2,
                        [k \in 1..(2 * n) |-> IF k % 2 = 1 THEN k + 1 ELSE 4])],
      \* the integer 1 as the stroke width, relative
      [edge_width |-> NdArray("int", 0, 1), edge_width_is_relative |-> TRUE] }
PointInputs ==
    UNION { {[data |-> [points |-> ps, ncols |-> 2], meta |-> m] :
                ps \in [1..n -> PointSamples], m \in PointMetas(n)}
            : n \in 0..MaxPoints }
    \cup {[data |-> Points3D, meta |-> NoMeta]}

\* Vectors: up to MaxPoints vectors (origin, direction), and one array of three columns
VectorSamples == { << <<0, 0>>, <<1, 1>> >>, << <<2, 1>>, <<-1, 0>> >> }
Vectors3D ==
    [vectors |-> << << <<0, 0, 0>>, <<1, 1, 1>> >> >>, ncols |-> 3, dtype |-> "float"]
VectorMetas ==
    { NoMeta, [length |-> Frac(2, 1)],
      [length |-> Frac(2, 1), scale |-> <<2, 3>>, translate |-> <<1, -1>>] }
\* a length that is not a whole number, for arrays of integers
VectorMetasOfInt == VectorMetas \cup { [length |-> Frac(3, 2)] }
VectorInputs ==
    {[data |-> [vectors |-> vs, ncols |-> 2, dtype |-> "float"], meta |-> m] :
        vs \in SeqsUpTo(VectorSamples, MaxPoints), m \in VectorMetas}
    \cup {[data |-> [vectors |-> vs, ncols |-> 2, dtype |-> "int"], meta |-> m] :
        vs \in SeqsUpTo(VectorSamples, MaxPoints), m \in VectorMetasOfInt}
    \cup {[data |-> Vectors3D, meta |-> NoMeta]}

\* Shapes.  A rectangle whose first edge gives the angle zero, one per index,
\* so that the shapes of a layer differ; and shapes of every type.
RectPlain(i) == << <<i + 2, i>>, <<i, i>>, <<i, i + 4>>, <<i + 2, i + 4>> >>
RectTurned == << <<0, 0>>, <<0, 4>>, <<2, 4>>, <<2, 0>> >>
Triangle == << <<0, 0>>, <<0, 4>>, <<2, 4>> >>
Segment == << <<1, 0>>, <<3, 5>> >>

\* layers of rectangles with every z_index, and with none
RectLayers ==
    UNION {
        {[data |-> [shapes |-> [i \in 1..n |-> RectPlain(i)]], meta |-> m] :
            m \in {NoMeta} \cup {[z_index |-> z] : z \in [1..n -> 0..MaxZ]}}
        : n \in 0..MaxShapes}

\* layers of other shapes: of every type, and with the wrong vertex count
MixedLayers ==
    { [data |-> [shapes |-> <<Segment, Triangle, RectTurned>>],
       meta |-> [shape_type |-> <<"line", "path", "rectangle">>, z_index |-> <<1, 0, 0>>]],
      [data |-> [shapes |-> <<RectTurned, Triangle>>],
       meta |-> [shape_type |-> <<"ellipse", "polygon">>]],
      [data |-> [shapes |-> <<RectPlain(0)>>],
       meta |-> [shape_type |-> <<"ellipse">>]],
      [data |-> [shapes |-> <<RectPlain(0), Triangle>>], meta |-> NoMeta],
      [data |-> [shapes |-> <<RectPlain(0), Segment>>],
       meta |-> [shape_type |-> <<"rectangle", "path">>]] }

\* the vertices of a rectangle in every cyclic order, in both directions
CyclicOrders(r) ==
    {[i \in 1..4 |-> r[((i - 1 + k) % 4) + 1]] : k \in 0..3}
    \cup {[i \in 1..4 |-> r[((k - i + 4) % 4) + 1]] : k \in 0..3}

\* a rectangle with edges along (3, 4) and (-4, 3): not parallel to the axes
RectTilted == << <<0, 0>>, <<6, 8>>, <<-2, 14>>, <<-8, 6>> >>

\* layers of one rectangle, parallel to the axes or not
RectangleLayers ==
    {[data |-> [shapes |-> <<r>>], meta |-> NoMeta] :
        r \in CyclicOrders(RectTurned) \cup CyclicOrders(RectTilted)}

\* layers with a shape whose array is not what its type asks for
Path3D == << <<0, 0, 0>>, <<1, 2, 3>> >>
BadShapeLayers ==
    { [data |-> [shapes |-> <<Triangle>>], meta |-> [shape_type |-> <<"ellipse">>]],
      [data |-> [shapes |-> <<RectTurned, Triangle>>],
       meta |-> [shape_type |-> <<"rectangle", "line">>]],
      [data |-> [shapes |-> <<Segment, RectTilted>>],
       meta |-> [shape_type |-> <<"line", "line">>]],
      [data |-> [shapes |-> <<Path3D>>], meta |-> [shape_type |-> <<"path">>]],
      [data |-> [shapes |-> <<RectTurned, Path3D>>],
       meta |-> [shape_type |-> <<"rectangle", "polygon">>]] }

\* layers of one ellipse, given by the corners of its bounding rectangle
EllipseLayers ==
    {[data |-> [shapes |-> <<r>>], meta |-> [shape_type |-> <<"ellipse">>]] :
        r \in CyclicOrders(RectTurned) \cup CyclicOrders(RectTilted)}

\* layers of shapes of different types in every order, each shape with a
\* face colour of its own
Red == <<One, Zero, Zero, One>>
Green == <<Zero, One, Zero, One>>
Blue == <<Zero, Zero, One, One>>
Grey == <<Frac(1, 2), Frac(1, 2), Frac(1, 2), One>>
StyleCases ==
    { [shape_type |-> "path", data |-> Triangle, face_color |-> Red],
      [shape_type |-> "polygon", data |-> Triangle, face_color |-> Green],
      [shape_type |-> "rectangle", data |-> RectTurned, face_color |-> Blue],
      [shape_type |-> "rectangle", data |-> RectPlain(0), face_color |-> Grey],
      [shape_type |-> "ellipse", data |-> RectTurned, face_color |-> White],
      [shape_type |-> "line", data |-> Segment, face_color |-> Black] }
StyledLayers ==
    { [data |-> [shapes |-> [i \in 1..Len(cs) |-> cs[i].data]],
       meta |-> [shape_type |-> [i \in 1..Len(cs) |-> cs[i].shape_type],
                 face_color |-> [i \in 1..Len(cs) |-> cs[i].face_color]]] :
        cs \in {c \in SeqsUpTo(StyleCases, MaxShapes) :
                    Len(c) >= 2 /\ \A i, j \in 1..Len(c) : i # j => c[i] # c[j]} }

ShapeInputs ==
    RectLayers \cup MixedLayers \cup RectangleLayers \cup BadShapeLayers
    \cup EllipseLayers \cup StyledLayers

\* The layers writer is called with: of every kind, converting or raising,
\* and of kinds that are not supported
WriterLayers ==
    { Layer("image", [levels |-> << <<2, 3>> >>], NoMeta),
      Layer("labels", [levels |-> << <<3, 2>> >>], [translate |-> <<1, 1>>]),
      Layer("image", [levels |-> << <<2, 2, 2>> >>], NoMeta),
      Layer("points", [points |-> << <<0, 0>>, <<2, 1>> >>, ncols |-> 2],
                      [size |-> NdArray("float", 1, <<16, 20>>)]),
      Layer("points", Points3D, NoMeta),
      Layer("shapes", [shapes |-> <<>>], NoMeta),
      Layer("shapes", [shapes |-> <<RectPlain(1), RectPlain(2)>>], [z_index |-> <<1, 0>>]),
      Layer("shapes", [shapes |-> <<Triangle>>], NoMeta),
      Layer("vectors", [vectors |-> << << <<2, 1>>, <<-1, 0>> >> >>, ncols |-> 2,
                        dtype |-> "float"], NoMeta),
      Layer("surface", [levels |-> << <<2, 3>> >>], NoMeta) }

LayerKinds == supported_layers \cup {"surface", "tracks"}

----------------------------------------------------------------------------
(* The calls *)

None == [kind |-> "None", path |-> <<>>, exc |-> "", msg |-> ""]
ReturnPath(p) == [kind |-> "path", path |-> p, exc |-> "", msg |-> ""]
ReturnWriter == [kind |-> "writer", path |-> <<>>, exc |-> "", msg |-> ""]
Raised(e, msg) == [kind |-> "raise", path |-> <<>>, exc |-> e, msg |-> msg]

NoCall == [op |-> "", path |-> <<>>, layer_types |-> <<>>, layer_data |-> <<>>,
           written |-> {}]

Init ==
    /\ fs \in {[p \in S |-> OldContent] : S \in SUBSET OldFiles}
    /\ fsBefore = fs
    /\ pc = "idle"
    /\ call = NoCall
    /\ ret = None
    /\ log = <<>>
    /\ converted = <<>>
    /\ svg = NoSvg

\* A faulty ending: the file is opened for writing before the layers are
\* converted, so that a call that raises leaves it truncated
NoDocument_truncating(result) ==
    /\ ret' = result
    /\ svg' = NoSvg
    /\ fs' = IF result.kind = "raise"
             THEN WriteFile(fs, PathRule(call'.path).path, NoSvg)
             ELSE fs

\* The call returns without a document: nothing is written
NoDocument(result) ==
    /\ ret' = result
    /\ svg' = NoSvg
    /\ fs' = fs

\* svg = xml_to_svg(xml_list, extrema=extrema); open(path, 'w').write(svg); return path
WriteDocument(path, xml_list, extrema) ==
    /\ svg' = xml_to_svg(xml_list, extrema)
    /\ fs' = WriteFile(fs, path, svg')
    /\ ret' = ReturnPath(path)

napari_get_writer ==
    /\ pc = "idle"
    /\ \E path \in Paths, layer_types \in SeqsUpTo(LayerKinds, MaxLayers) :
        /\ pc' = "done"
        /\ call' = [NoCall EXCEPT !.op = "napari_get_writer", !.path = path,
                                  !.layer_types = layer_types]
        /\ fsBefore' = fs
        /\ log' = <<>>
        /\ converted' = <<>>
        /\ IF \E i \in 1..Len(layer_types) : layer_types[i] \notin supported_layers
           THEN NoDocument(None)
           ELSE IF ~PathRule(path).ok THEN NoDocument(None)
           ELSE NoDocument(ReturnWriter)

\* A faulty writer: the empty layer list is not refused, an empty file is written
write_layers_of_empty_list(path, layer_data, r) ==
    /\ pc' = "done"
    /\ call' = [NoCall EXCEPT !.op = "writer", !.path = path,
                              !.layer_data = layer_data,
                              !.written = IF PathRule(path).ok /\ Len(layer_data) # 0
                                          THEN r.written ELSE {}]
    /\ fsBefore' = fs
    /\ IF ~PathRule(path).ok
       THEN log' = <<>> /\ converted' = <<>> /\ NoDocument(None)
       ELSE IF Len(layer_data) = 0
       THEN /\ log' = <<>>
            /\ converted' = <<>>
            /\ svg' = NoSvg
            /\ fs' = WriteFile(fs, PathRule(path).path, NoSvg)
            /\ ret' = ReturnPath(PathRule(path).path)
       ELSE /\ log' = r.ran
            /\ converted' = r.converted
            /\ IF r.exc # "" THEN NoDocument(Raised(r.exc, r.msg))
               ELSE WriteDocument(PathRule(path).path, r.xml, r.extrema)

\* writer, r being what its loop over the layers gives
write_layers(path, layer_data, r) ==
    /\ pc' = "done"
    /\ call' = [NoCall EXCEPT !.op = "writer", !.path = path,
                              !.layer_data = layer_data,
                              !.written = IF PathRule(path).ok /\ Len(layer_data) # 0
                                          THEN r.written ELSE {}]
    /\ fsBefore' = fs
    /\ IF ~PathRule(path).ok
       THEN log' = <<>> /\ converted' = <<>> /\ NoDocument(None)
       ELSE IF Len(layer_data) = 0
       THEN log' = <<>> /\ converted' = <<>> /\ NoDocument(None)
       ELSE /\ log' = r.ran
            /\ converted' = r.converted
            /\ IF r.exc # "" THEN NoDocument(Raised(r.exc, r.msg))
               ELSE WriteDocument(PathRule(path).path, r.xml, r.extrema)

writer ==
    /\ pc = "idle"
    /\ \E path \in Paths, layer_data \in SeqsUpTo(WriterLayers, MaxLayers) :
            \E z_orders \in ArgsortsOfAll(layer_data) :
                write_layers(path, layer_data, writer_loop(layer_data, z_orders))

\* What the five napari_write_* hooks share: the path rule, one converter
\* (r is what it returns or raises), the document and the file
write_layer(op, kind, path, input, r) ==
    /\ pc' = "done"
    /\ call' = [NoCall EXCEPT !.op = op, !.path = path,
                              !.layer_data = <<Layer(kind, input.data, input.meta)>>,
                              !.written =
                                  IF PathRule(path).ok
                                  THEN WrittenInPlace(<<Layer(kind, input.data, input.meta)>>, 1)
                                  ELSE {}]
    /\ fsBefore' = fs
    /\ IF ~PathRule(path).ok
       THEN log' = <<>> /\ converted' = <<>> /\ NoDocument(None)
       ELSE /\ log' = <<ConverterOf(kind)>>
            /\ converted' = IF r.exc # "" THEN <<>> ELSE <<r.xml>>
            /\ IF r.exc # "" THEN NoDocument(Raised(r.exc, r.msg))
               ELSE WriteDocument(PathRule(path).path, r.xml, r.extrema)

napari_write_image ==
    /\ pc = "idle"
    /\ \E path \in Paths, input \in ImageInputs :
            write_layer("napari_write_image", "image", path, input,
                        image_to_xml(input.data, input.meta))

napari_write_labels ==
    /\ pc = "idle"
    /\ \E path \in Paths, input \in ImageInputs :
            write_layer("napari_write_labels", "labels", path, input,
                        image_to_xml(input.data, input.meta))

napari_write_points ==
    /\ pc = "idle"
    /\ \E path \in Paths, input \in PointInputs :
            write_layer("napari_write_points", "points", path, input,
                        points_to_xml(input.data, input.meta))

napari_write_shapes ==
    /\ pc = "idle"
    /\ \E path \in Paths, input \in ShapeInputs :
            \E z_order \in np_argsort(z_index_of(input.data, input.meta)) :
                write_layer("napari_write_shapes", "shapes", path, input,
                            shapes_to_xml(input.data, input.meta, z_order))

napari_write_vectors ==
    /\ pc = "idle"
    /\ \E path \in Paths, input \in VectorInputs :
            write_layer("napari_write_vectors", "vectors", path, input,
                        vectors_to_xml(input.data, input.meta))

Next ==
    \/ napari_get_writer
    \/ writer
    \/ napari_write_image
    \/ napari_write_labels
    \/ napari_write_points
    \/ napari_write_shapes
    \/ napari_write_vectors

Spec == Init /\ [][Next]_vars

----------------------------------------------------------------------------
(* Properties *)

SingleLayerHooks ==
    {"napari_write_image", "napari_write_labels", "napari_write_points",
     "napari_write_shapes", "napari_write_vectors"}

WriteCalls == SingleLayerHooks \cup {"writer"}

\* one of the calls ops was made and has returned or raised
Called(ops) == pc = "done" /\ call.op \in ops

\* the path carries an extension, and it is not '.svg'
ForeignExtension(path) == splitext(path)[2] \notin {<<>>, SVG_EXT}

NoExtension(path) == splitext(path)[2] = <<>>

\* the conversion of the layer ld raises, whatever np.argsort returns
Raises(ld) == \A zo \in ArgsortsOf(ld) : eval_to_xml(ld, zo).exc # ""

\* the children of the document's root, and the elements below them
ChildrenOf(elements) == Concat([i \in 1..Len(elements) |-> elements[i].children])

DocElements ==
    svg.root.children
        \o ChildrenOf(svg.root.children)
        \o ChildrenOf(ChildrenOf(svg.root.children))

WithTag(elements, tag) == SelectSeq(elements, LAMBDA e : e.tag = tag)

\* C1: in every napari_write_* hook and in writer, a destination path with
\* an extension other than '.svg' makes the call return None, run no
\* converter, assemble no document and leave every file as it was.
C1_ForeignExtensionRejected ==
    (Called(WriteCalls) /\ ForeignExtension(call.path))
        => /\ ret = None
           /\ log = <<>>
           /\ converted = <<>>
           /\ svg = NoSvg
           /\ fs = fsBefore

\* writer was given layers that convert, a path o.csv that exists, and refused
C1_Witness ==
    /\ Called({"writer"})
    /\ ForeignExtension(call.path)
    /\ Exists(fsBefore, call.path)
    /\ Len(call.layer_data) > 0
    /\ \A i \in 1..Len(call.layer_data) : ~Raises(call.layer_data[i])
    /\ ret = None

\* C2: in every napari_write_* hook and in writer, when the path has no
\* extension and the conversion succeeds, the document is the content of
\* path + '.svg', the call returns path + '.svg', and the path without the
\* suffix is as it was before (it is not created).
C2_SuffixAppended ==
    (/\ Called(WriteCalls)
     /\ NoExtension(call.path)
     /\ Len(call.layer_data) > 0
     /\ \A i \in 1..Len(call.layer_data) : ~Raises(call.layer_data[i]))
        => /\ ret = ReturnPath(call.path \o SVG_EXT)
           /\ svg.tag = "document"
           /\ Exists(fs, call.path \o SVG_EXT)
           /\ fs[call.path \o SVG_EXT] = svg
           /\ Exists(fs, call.path) = Exists(fsBefore, call.path)
           /\ DOMAIN fs = DOMAIN fsBefore \cup {call.path \o SVG_EXT}

\* a hook wrote o.svg, which did not exist, for the path o
C2_Witness ==
    /\ Called({"napari_write_points"})
    /\ call.path = <<"o">>
    /\ ~Exists(fsBefore, call.path \o SVG_EXT)
    /\ ret = ReturnPath(call.path \o SVG_EXT)
    /\ fs[call.path \o SVG_EXT] = svg
    /\ ~Exists(fs, call.path)

\* C3: napari_get_writer returns None when layer_types holds a kind that is
\* not image, points, labels, shapes or vectors, or when the path has an
\* extension other than '.svg'; it returns the writer in every other case;
\* and it never writes a file.
C3_GetWriter ==
    Called({"napari_get_writer"})
        => /\ ret = IF \/ \E i \in 1..Len(call.layer_types) :
                            call.layer_types[i] \notin
                                {"image", "points", "labels", "shapes", "vectors"}
                       \/ ForeignExtension(call.path)
                    THEN None
                    ELSE ReturnWriter
           /\ fs = fsBefore
           /\ svg = NoSvg
           /\ log = <<>>

\* napari_get_writer refused a list whose last kind only is not supported,
\* for a path that is fine
C3_Witness ==
    /\ Called({"napari_get_writer"})
    /\ ~ForeignExtension(call.path)
    /\ Len(call.layer_types) = 2
    /\ call.layer_types[1] = "image"
    /\ call.layer_types[2] = "surface"
    /\ ret = None

\* C4: writer, given a list in which some layer's kind is not one of the five
\* supported kinds, returns None before any layer is converted: no converter
\* runs, nothing is raised and no file is written.
C4_UnsupportedKindRejectedFirst ==
    (/\ Called({"writer"})
     /\ \E i \in 1..Len(call.layer_data) :
            call.layer_data[i].kind \notin
                {"image", "points", "labels", "shapes", "vectors"})
        => /\ ret = None
           /\ log = <<>>
           /\ converted = <<>>
           /\ fs = fsBefore

\* C5: in writer and in every napari_write_* hook, when the conversion of any
\* layer raises (the first or the last), the call raises, no document is
\* assembled and the file system is as before: no file is created, and the
\* file at the path keeps its content.
C5_NoPartialDocument ==
    (/\ Called(WriteCalls)
     /\ ~ForeignExtension(call.path)
     /\ \E i \in 1..Len(call.layer_data) : Raises(call.layer_data[i]))
        => /\ ret.kind = "raise"
           /\ svg = NoSvg
           /\ fs = fsBefore

\* writer converted its first layer, its last layer raised, and the file at
\* the path, which existed, is as it was
C5_Witness ==
    /\ Called({"writer"})
    /\ Len(call.layer_data) = 2
    /\ ~Raises(call.layer_data[1])
    /\ call.layer_data[2].kind \in {"points", "shapes"}
    /\ Raises(call.layer_data[2])
    /\ Len(converted) = 1
    /\ Exists(fsBefore, PathRule(call.path).path)
    /\ ret.kind = "raise"
    /\ fs = fsBefore

\* C6: the document writer assembles has one translate group, whose children
\* are what the converters returned, one per layer and in input order.
C6_OneFragmentPerLayer ==
    (Called({"writer"}) /\ ret.kind = "path")
        => /\ Len(svg.root.children) = 1
           /\ svg.root.children[1].attrs.transform.op = "translate"
           /\ Len(converted) = Len(call.layer_data)
           /\ svg.root.children[1].children = converted

\* C7: napari_write_image and napari_write_labels, on a two dimensional image
\* of shape (H, W) that is not rgb, with default metadata, write a document
\* whose root has width W and height H and that holds exactly one image
\* element, of width W and height H.
C7_OneImageElement ==
    (/\ Called({"napari_write_image", "napari_write_labels"})
     /\ ret.kind = "path"
     /\ call.layer_data[1].meta = NoMeta
     /\ Len(call.layer_data[1].data.levels) = 1
     /\ Len(call.layer_data[1].data.levels[1]) = 2)
        => /\ svg.root.attrs.height = call.layer_data[1].data.levels[1][1]
           /\ svg.root.attrs.width = call.layer_data[1].data.levels[1][2]
           /\ Len(WithTag(DocElements, "image")) = 1
           /\ WithTag(DocElements, "image")[1].attrs.height
                = call.layer_data[1].data.levels[1][1]
           /\ WithTag(DocElements, "image")[1].attrs.width
                = call.layer_data[1].data.levels[1][2]

\* the circle the spec asks for the point i of a points layer
CircleOf(ld, i) ==
    [cx |-> ld.data.points[i][2],
     cy |-> ld.data.points[i][1],
     r |-> Frac(PointSizes(ld.meta, Len(ld.data.points)).v[i].num,
                2 * PointSizes(ld.meta, Len(ld.data.points)).v[i].den)]

\* C8: napari_write_points on N points of two columns writes a document with
\* exactly N circles, in input order, circle i having cx the column and cy
\* the row of point i and r half its size, and the circles are the children
\* of a group whose transform is the layer's composed transform, that group
\* being a child of the document's translate group.
C8_CirclesInLayerGroup ==
    (Called({"napari_write_points"}) /\ ret.kind = "path")
        => LET ld == call.layer_data[1]
               circles == WithTag(DocElements, "circle")
               top == svg.root.children[1]
           IN  /\ Len(circles) = Len(ld.data.points)
               /\ \A i \in 1..Len(circles) :
                    /\ circles[i].attrs.cx = CircleOf(ld, i).cx
                    /\ circles[i].attrs.cy = CircleOf(ld, i).cy
                    /\ circles[i].attrs.r = CircleOf(ld, i).r
               /\ top.attrs.transform.op = "translate"
               /\ Len(top.children) = 1
               /\ top.children[1].tag = "g"
               /\ top.children[1].attrs.transform
                    = layer_transforms_to_xml_string(ld.meta)
               /\ top.children[1].children = circles

\* the elements of the group g are in ascending order of the z_index of the
\* shapes of the layer ld they are built from
ZOrdered(ld, g) ==
    LET z == z_index_of(ld.data, ld.meta)
        raw == raw_xml_list(ld.data, ld.meta)
    IN  /\ Len(g.children) = Len(z)
        /\ \A i, j \in 1..Len(z) :
             z[i] < z[j] =>
                \E k, l \in 1..Len(g.children) :
                    /\ k < l
                    /\ g.children[k] = raw[i].xml
                    /\ g.children[l] = raw[j].xml

\* C9: the group shapes_to_xml returns holds the shape elements in ascending
\* order of z_index: when z_index[i] < z_index[j], the element of shape i
\* comes before the element of shape j.
C9_AscendingZIndex ==
    \A n \in 1..Len(converted) :
        call.layer_data[n].kind = "shapes" => ZOrdered(call.layer_data[n], converted[n])

\* three rectangles of z_index [2, 0, 1] come out in the order 1, 2, 0 (the
\* second, the third, the first)
C9_Witness ==
    /\ Called({"napari_write_shapes"})
    /\ Len(converted) = 1
    /\ z_index_of(call.layer_data[1].data, call.layer_data[1].meta) = <<2, 0, 1>>
    /\ LET raw == raw_xml_list(call.layer_data[1].data, call.layer_data[1].meta)
       IN  converted[1].children = <<raw[2].xml, raw[3].xml, raw[1].xml>>

\* extrema of every mix of NaN and numbers
ExtremaEntries == {NaN, Num(-2), Num(0), Num(3)}
ExtremaInputs == [1..2 -> [1..2 -> ExtremaEntries]]

\* NaN replaced by 0
Sanitized(a) == IF a = NaN THEN 0 ELSE a.v

\* the extent the document shows for the extent max - min
Coerced(d) == IF d = 0 THEN 1 ELSE d

\* for every extrema, the root's width and height are max - min of the
\* sanitized entries, with 1 for 0
NeverZeroForAnyExtrema ==
    \A e \in ExtremaInputs :
        LET attrs == xml_to_svg(PyList(<<>>), e).root.attrs
        IN  /\ attrs.height = Coerced(Sanitized(e[2][1]) - Sanitized(e[1][1]))
            /\ attrs.width = Coerced(Sanitized(e[2][2]) - Sanitized(e[1][2]))
            /\ attrs.height # 0
            /\ attrs.width # 0

\* every layer of the call is a shapes layer without shapes
EveryLayerEmpty ==
    /\ Len(call.layer_data) > 0
    /\ \A i \in 1..Len(call.layer_data) :
         /\ call.layer_data[i].kind = "shapes"
         /\ call.layer_data[i].data.shapes = <<>>

\* C10: the root of a document xml_to_svg assembles never has a width or a
\* height of zero, whatever the extrema: NaN counts as 0, the extent is
\* max - min, and an extent of 0 becomes 1.  When every layer is empty the
\* document has width 1, height 1 and the translate (0, 0).
C10_NeverZeroExtent ==
    /\ NeverZeroForAnyExtrema
    /\ svg.tag = "document"
         => /\ svg.root.attrs.width # 0
            /\ svg.root.attrs.height # 0
    /\ (Called(WriteCalls) /\ ret.kind = "path" /\ EveryLayerEmpty)
         => /\ svg.root.attrs.width = 1
            /\ svg.root.attrs.height = 1
            /\ svg.root.children[1].attrs.transform
                 = [op |-> "translate", args |-> <<0, 0>>]

\* writer wrote the document of two empty shapes layers
C10_Witness ==
    /\ Called({"writer"})
    /\ ret.kind = "path"
    /\ Len(call.layer_data) = 2
    /\ EveryLayerEmpty
    /\ svg.root.attrs.width = 1
    /\ svg.root.attrs.height = 1

----------------------------------------------------------------------------
(* The aggregation of the extrema *)

\* the extrema the conversion of the layer ld returns (it does not depend on
\* what np.argsort returns)
ExtremaOfLayer(ld) == eval_to_xml(ld, CHOOSE zo \in ArgsortsOf(ld) : TRUE).extrema

\* a list of extrema as the list of results the loop of writer folds
AsResults(extremas) == [i \in 1..Len(extremas) |-> [extrema |-> extremas[i]]]

\* the list s in the order o
Permuted(s, o) == [k \in 1..Len(s) |-> s[o[k]]]

\* full_extrema for a list of extrema
Aggregate(extremas) == fold_extrema(AsResults(extremas), Len(extremas))

\* the extrema of no layer, of layers of one point, and of larger layers
ExtremaSamples ==
    { NanExtrema,
      << <<Num(0), Num(0)>>, <<Num(2), Num(3)>> >>,
      << <<Num(-1), Num(1)>>, <<Num(1), Num(5)>> >>,
      << <<Num(1), Num(-2)>>, <<Num(1), Num(-2)>> >> }

\* the aggregation does not depend on the order or on the grouping of the
\* extrema, and an all-NaN extrema changes nothing
AggregationOfSamples ==
    /\ \A es \in SeqsUpTo(ExtremaSamples, 3) :
         \A o \in Orders(Len(es)) : Aggregate(Permuted(es, o)) = Aggregate(es)
    /\ \A a, b, c \in ExtremaSamples :
         /\ merge_extrema(merge_extrema(a, b), c) = merge_extrema(a, merge_extrema(b, c))
         /\ Aggregate(<<a, b, c>>) = merge_extrema(a, Aggregate(<<b, c>>))
    /\ \A a \in ExtremaSamples \ {NanExtrema} :
         /\ merge_extrema(NanExtrema, a) = a
         /\ merge_extrema(a, NanExtrema) = a
         /\ \A b \in ExtremaSamples \ {NanExtrema} :
              /\ Aggregate(<<NanExtrema, a, b>>) = Aggregate(<<a, b>>)
              /\ Aggregate(<<a, NanExtrema, b>>) = Aggregate(<<a, b>>)
              /\ Aggregate(<<a, b, NanExtrema>>) = Aggregate(<<a, b>>)

\* C11: the extrema writer aggregates over its layers (the first taken as it
\* is, then the NaN-ignoring minimum of the minima and maximum of the maxima)
\* is the same for every order and every grouping of the layers, and a layer
\* of all-NaN extrema, at any position, leaves the extrema of the others
\* unchanged.  The document writer wrote has the extent of that aggregate.
C11_AggregationOrderFree ==
    /\ AggregationOfSamples
    /\ (Called({"writer"}) /\ ret.kind = "path")
         => LET es == [i \in 1..Len(call.layer_data) |->
                          ExtremaOfLayer(call.layer_data[i])]
            IN  /\ \A o \in Orders(Len(es)) :
                     Aggregate(Permuted(es, o)) = Aggregate(es)
                /\ \A i \in 1..Len(es) :
                     es[i] = NanExtrema =>
                        Aggregate(es) =
                            Aggregate(SelectSeq(es, LAMBDA e : e # NanExtrema))
                /\ svg.root.attrs
                     = xml_to_svg(PyList(<<>>), Aggregate(es)).root.attrs

\* writer folded the all-NaN extrema of an empty shapes layer, which came
\* first, with the extrema of an image
C11_Witness ==
    /\ Called({"writer"})
    /\ ret.kind = "path"
    /\ Len(call.layer_data) = 2
    /\ ExtremaOfLayer(call.layer_data[1]) = NanExtrema
    /\ call.layer_data[2].kind = "image"
    /\ svg.root.attrs.width = 3
    /\ svg.root.attrs.height = 2

----------------------------------------------------------------------------
(* Empty layers *)

\* the layer ld has no shape, no point or no vector
EmptyLayer(ld) ==
    \/ ld.kind = "shapes" /\ ld.data.shapes = <<>>
    \/ ld.kind = "points" /\ ld.data.ncols = 2 /\ ld.data.points = <<>>
    \/ ld.kind = "vectors" /\ ld.data.ncols = 2 /\ ld.data.vectors = <<>>

\* C12: the conversion of an empty layer never raises: shapes_to_xml on no
\* shape, points_to_xml on a (0, 2) array and vectors_to_xml on a (0, 2, 2)
\* array each return a fragment without children and the all-NaN extrema.
C12_EmptyLayerConverts ==
    (/\ Called({"napari_write_shapes", "napari_write_points", "napari_write_vectors"})
     /\ ~ForeignExtension(call.path)
     /\ EmptyLayer(call.layer_data[1]))
        => /\ ret.kind = "path"
           /\ Len(converted) = 1
           /\ converted[1].children = <<>>
           /\ ExtremaOfLayer(call.layer_data[1]) = NanExtrema

----------------------------------------------------------------------------
(* The transform string and the matrix *)

\* tan of an angle np.degrees(np.arctan2(y, 1)) gives
TanOf(angle) ==
    IF angle.exact
    THEN CASE angle.deg = 0 -> 0 [] angle.deg = 45 -> 1 [] angle.deg = -45 -> -1
    ELSE angle.y \div angle.x

\* what svg does to the point p = (x, y) for one operator of a transform list
ApplySvgOperator(t, p) ==
    CASE t.op = "scale" -> <<t.args[1] * p[1], t.args[2] * p[2]>>
      [] t.op = "skewY" -> <<p[1], p[2] + TanOf(t.args[1]) * p[1]>>
      [] t.op = "rotate" ->
            <<CosDeg(t.args[1].deg) * p[1] - SinDeg(t.args[1].deg) * p[2],
              SinDeg(t.args[1].deg) * p[1] + CosDeg(t.args[1].deg) * p[2]>>
      [] t.op = "translate" -> <<p[1] + t.args[1], p[2] + t.args[2]>>
      [] t.op = "matrix" ->
            <<t.args[1] * p[1] + t.args[3] * p[2] + t.args[5],
              t.args[2] * p[1] + t.args[4] * p[2] + t.args[6]>>

\* svg applies a transform list from right to left
RECURSIVE ApplySvgTransform(_, _)
ApplySvgTransform(ts, p) ==
    IF ts = <<>> THEN p
    ELSE ApplySvgOperator(Head(ts), ApplySvgTransform(Tail(ts), p))

\* point @ matrix.T + offset for the point (row, col)
ApplyMatrixAndOffset(mo, point) ==
    <<MatVec(mo.matrix, point)[1] + mo.offset[1],
      MatVec(mo.matrix, point)[2] + mo.offset[2]>>

SamplePoints == {<<r, c>> : r \in -1..2, c \in -1..2}

\* the transform string and the matrix of the metadata meta describe one map
SameMap(meta) ==
    /\ [i \in 1..5 |-> layer_transforms_to_xml_string(meta)[i].op]
         = <<"matrix", "translate", "rotate", "skewY", "scale">>
    /\ \A p \in SamplePoints :
         Reverse(ApplySvgTransform(layer_transforms_to_xml_string(meta), Reverse(p)))
            = ApplyMatrixAndOffset(make_linear_matrix_and_offset(meta), p)

\* the four quarter turns, as napari gives them
QuarterTurns ==
    { I2, QuarterTurn, << <<-1, 0>>, <<0, -1>> >>, << <<0, 1>>, <<-1, 0>> >> }

\* metadata of every mix of a quarter turn, a shear, a scale, a translation
\* and an affine matrix
MixedTransformMetas ==
    { [rotate |-> r, shear |-> <<sh>>, scale |-> sc, translate |-> tr, affine |-> af] :
        r \in QuarterTurns, sh \in {-1, 0, 2}, sc \in {<<1, 1>>, <<2, 3>>},
        tr \in {<<0, 0>>, <<5, -5>>}, af \in {I3, Affine} }

SameMapForSamples ==
    /\ SameMap(NoMeta)
    /\ SameMap([scale |-> <<2, 3>>])
    /\ SameMap([translate |-> <<5, -5>>])
    /\ \A meta \in MixedTransformMetas : SameMap(meta)

\* C13: for the same metadata, the transform string lists the operators
\* matrix, translate, rotate, skewY, scale, and applying them from right to
\* left to a point (x = col, y = row) gives, swapped back to (row, col),
\* point @ matrix.T + offset for the pair of make_linear_matrix_and_offset.
\* It holds for the metadata of every layer a call converted, whose fragment
\* carries that string.
C13_StringAndMatrixAgree ==
    /\ SameMapForSamples
    /\ \A i \in 1..Len(converted) :
         /\ SameMap(call.layer_data[i].meta)
         /\ converted[i].attrs.transform
              = layer_transforms_to_xml_string(call.layer_data[i].meta)

\* an image with a quarter turn, a shear, a scale, a translation and an
\* affine matrix was converted
C13_Witness ==
    /\ Called({"napari_write_image"})
    /\ Len(converted) = 1
    /\ DOMAIN call.layer_data[1].meta
         = {"rotate", "shear", "scale", "translate", "affine"}
    /\ converted[1].attrs.transform[1].op = "matrix"
    /\ converted[1].attrs.transform[1].args = <<1, 2, -1, 1, 0, 3>>

----------------------------------------------------------------------------
(* The rectangle round trip *)

\* the four vertices are those of a rectangle, in cyclic order
IsRectangle(data) ==
    /\ Shape(data) = <<4, 2>>
    /\ data[1][1] + data[3][1] = data[2][1] + data[4][1]
    /\ data[1][2] + data[3][2] = data[2][2] + data[4][2]
    /\ (data[2][1] - data[1][1]) * (data[3][1] - data[2][1])
         + (data[2][2] - data[1][2]) * (data[3][2] - data[2][2]) = 0
    /\ data[1] # data[2]
    /\ data[2] # data[3]

\* the corners of the box (x, y, width, height) of a rect element, times 4
BoxCorners(e) ==
    { <<e.attrs.x.num + dx, e.attrs.y.num + dy>> :
        dx \in {0, e.attrs.width.num}, dy \in {0, e.attrs.height.num} }

\* svg's rotate(angle, cx, cy) on a point; p and the result are times 4
ApplyRotateAbout(t, p) ==
    << t.args[2].num
         + (TurnCos(t.args[1]).num * (p[1] - t.args[2].num)
            - TurnSin(t.args[1]).num * (p[2] - t.args[3].num)) \div TurnCos(t.args[1]).den,
       t.args[3].num
         + (TurnSin(t.args[1]).num * (p[1] - t.args[2].num)
            + TurnCos(t.args[1]).num * (p[2] - t.args[3].num)) \div TurnCos(t.args[1]).den >>

\* where svg draws the corners of a rect element, times 4
DrawnCorners(e) ==
    IF "transform" \in DOMAIN e.attrs
    THEN {ApplyRotateAbout(e.attrs.transform, p) : p \in BoxCorners(e)}
    ELSE BoxCorners(e)

\* the vertices of a shape as (x = col, y = row), times 4
VerticesXY(data) == {<<4 * data[i][2], 4 * data[i][1]>> : i \in 1..Len(data)}

ShapeTypeOf(ld, j) ==
    MetaGet(ld.meta, "shape_type", Repeat("rectangle", Len(ld.data.shapes)))[j]

\* C14: for every rectangle of four vertices in cyclic order, turned or
\* parallel to the axes, the corners of the box (x, y, width, height) that
\* rectangle_to_xml gives, with the rotate(angle, cx, cy) it gives applied,
\* are the four vertices of the rectangle as (x = col, y = row).
C14_RectangleRoundTrip ==
    \A i \in 1..Len(converted) :
        call.layer_data[i].kind = "shapes" =>
            \A j \in 1..Len(call.layer_data[i].data.shapes) :
                (/\ ShapeTypeOf(call.layer_data[i], j) = "rectangle"
                 /\ IsRectangle(call.layer_data[i].data.shapes[j]))
                => \E k \in 1..Len(converted[i].children) :
                     /\ converted[i].children[k].tag = "rect"
                     /\ converted[i].children[k]
                          = raw_xml_list(call.layer_data[i].data,
                                         call.layer_data[i].meta)[j].xml
                     /\ DrawnCorners(converted[i].children[k])
                          = VerticesXY(call.layer_data[i].data.shapes[j])

\* a rectangle that is not parallel to the axes was converted, and written
C14_Witness ==
    /\ Called({"napari_write_shapes"})
    /\ ret.kind = "path"
    /\ Len(converted) = 1
    /\ Len(converted[1].children) = 1
    /\ IsRectangle(call.layer_data[1].data.shapes[1])
    /\ converted[1].children[1].tag = "rect"
    /\ "transform" \in DOMAIN converted[1].children[1].attrs
    /\ ~converted[1].children[1].attrs.transform.args[1].exact

----------------------------------------------------------------------------
(* More than two dimensions *)

\* the data of the layer ld has more than two spatial dimensions
MoreThanTwoSpatialDimensions(ld) ==
    CASE ld.kind \in {"image", "labels"} ->
            Len(squeeze(ld.data.levels[Len(ld.data.levels)]))
              - (IF MetaGet(ld.meta, "rgb", FALSE) THEN 1 ELSE 0) > 2
      [] ld.kind \in {"points", "vectors"} -> ld.data.ncols > 2

DimensionMessage(kind) ==
    CASE kind \in {"image", "labels"} -> ImageMessage
      [] kind = "points" -> PointsMessage
      [] kind = "vectors" -> VectorsMessage

DimensionMessages == {ImageMessage, PointsMessage, VectorsMessage}

\* a hook converted (or tried to) one image, labels, points or vectors layer
ConvertedOneLayer ==
    /\ Called({"napari_write_image", "napari_write_labels",
               "napari_write_points", "napari_write_vectors"})
    /\ ~ForeignExtension(call.path)

\* C15: the converter of a layer raises the ValueError of its dimension
\* check, and returns no fragment, exactly when the data has more than two
\* spatial dimensions: image_to_xml when ndim after squeeze, less one for rgb,
\* is above 2, points_to_xml with more than 2 columns, vectors_to_xml with a
\* last axis longer than 2.  Data within the limit is never rejected by these
\* checks.
C15_DimensionCheck ==
    ConvertedOneLayer =>
        IF MoreThanTwoSpatialDimensions(call.layer_data[1])
        THEN /\ ret = Raised("ValueError", DimensionMessage(call.layer_data[1].kind))
             /\ converted = <<>>
             /\ svg = NoSvg
        ELSE ret.msg \notin DimensionMessages

\* an image of three dimensions after squeeze was rejected
C15_Witness ==
    /\ ConvertedOneLayer
    /\ call.layer_data[1].kind = "image"
    /\ call.layer_data[1].meta = NoMeta
    /\ Len(squeeze(call.layer_data[1].data.levels[1])) = 3
    /\ ret.exc = "ValueError"
    /\ ret.msg = ImageMessage

----------------------------------------------------------------------------
(* Shapes of the wrong size *)

\* the array data is not what the shape type st asks for
WrongShape(st, data) ==
    CASE st \in {"ellipse", "rectangle"} -> Shape(data) # <<4, 2>>
      [] st = "line" -> Shape(data) # <<2, 2>>
      [] st \in {"path", "polygon"} -> Shape(data)[2] # 2

\* arrays of 1 to 5 vertices with 1 to 3 columns
EncoderSamples ==
    {RectTurned, RectPlain(0), RectTilted}
    \cup {[i \in 1..k |-> [j \in 1..c |-> i * j]] :
            k \in {1, 2, 3, 5}, c \in 1..3}
    \cup {[i \in 1..4 |-> [j \in 1..c |-> i * j]] : c \in {1, 3}}

SomeProps == [stroke_width |-> 1, opacity |-> 1]

\* every vertex of data is in the element, and nothing else
HoldsEveryVertex(st, data, xml) ==
    CASE st = "line" ->
            <<xml.attrs.y1, xml.attrs.x1, xml.attrs.y2, xml.attrs.x2>>
                = <<data[1][1], data[1][2], data[2][1], data[2][2]>>
      [] st \in {"path", "polygon"} -> xml.attrs.points = Flip(data)
      [] OTHER -> TRUE

\* each encoder raises ValueError for an array of the wrong shape, and only
\* for one
EncodersValidate ==
    \A st \in ShapeTypes, data \in EncoderSamples :
        IF WrongShape(st, data)
        THEN shape_to_xml(st, data, SomeProps) = RaiseElement("ValueError")
        ELSE /\ shape_to_xml(st, data, SomeProps).exc # "ValueError"
             /\ shape_to_xml(st, data, SomeProps).exc = ""
                  => HoldsEveryVertex(st, data, shape_to_xml(st, data, SomeProps).xml)

HasWrongShape(ld) ==
    \E j \in 1..Len(ld.data.shapes) : WrongShape(ShapeTypeOf(ld, j), ld.data.shapes[j])

\* C16: every shape encoder raises ValueError for data of the wrong shape:
\* ellipse and rectangle unless it is (4, 2), line unless it is (2, 2), path
\* and polygon unless it has 2 columns; vertices are not cut or padded.  In
\* shapes_to_xml one such shape makes the conversion of the whole layer fail.
C16_WrongShapeRejected ==
    /\ EncodersValidate
    /\ (/\ Called({"napari_write_shapes"})
        /\ ~ForeignExtension(call.path)
        /\ HasWrongShape(call.layer_data[1]))
       => /\ ret.kind = "raise"
          /\ ret.exc = "ValueError"
          /\ converted = <<>>
          /\ svg = NoSvg
          /\ fs = fsBefore

\* a layer whose first shape is right and whose second has too many
\* vertices for a line was not converted
C16_Witness ==
    /\ Called({"napari_write_shapes"})
    /\ ~ForeignExtension(call.path)
    /\ Len(call.layer_data[1].data.shapes) = 2
    /\ ~WrongShape(ShapeTypeOf(call.layer_data[1], 1), call.layer_data[1].data.shapes[1])
    /\ ShapeTypeOf(call.layer_data[1], 2) = "line"
    /\ Shape(call.layer_data[1].data.shapes[2]) = <<4, 2>>
    /\ ret.exc = "ValueError"

----------------------------------------------------------------------------
(* Shapes of the same z_index *)

\* in the group g of the layer ld, shapes of equal z_index are in input order
TiesInInputOrder(ld, g) ==
    \A i, j \in 1..Len(ld.data.shapes) :
        (i < j /\ z_index_of(ld.data, ld.meta)[i] = z_index_of(ld.data, ld.meta)[j])
        => \E k, l \in 1..Len(g.children) :
             /\ k < l
             /\ g.children[k] = raw_xml_list(ld.data, ld.meta)[i].xml
             /\ g.children[l] = raw_xml_list(ld.data, ld.meta)[j].xml

\* C17: the reordering by z_index in shapes_to_xml is stable: of two shapes
\* i < j with the same z_index (all of them, when z_index is left to its
\* default 0), the element of shape i comes before the element of shape j in
\* the group.
C17_StableZOrder ==
    \A n \in 1..Len(converted) :
        call.layer_data[n].kind = "shapes"
            => TiesInInputOrder(call.layer_data[n], converted[n])

----------------------------------------------------------------------------
(* Ellipses *)

\* what the claim asks of the element of an ellipse with the vertices data:
\* the centre is the centroid, the radii are half the extent between the
\* vertices 0 and 2 once turned back, and there is a transform only when the
\* angle is not zero
IsEllipseOf(e, data) ==
    /\ e.tag = "ellipse"
    /\ e.attrs.cx = Frac(Cen4(Flip(data))[1], 4)
    /\ e.attrs.cy = Frac(Cen4(Flip(data))[2], 4)
    /\ e.attrs.rx = Frac(Size4(Derotate(data))[1], 8)
    /\ e.attrs.ry = Frac(Size4(Derotate(data))[2], 8)
    /\ ("transform" \in DOMAIN e.attrs) = ~IsZero(Turn(Flip(data)))

\* C18: ellipse_to_xml returns an ellipse element for every (4, 2) array,
\* whether the angle of its first edge is zero or not; with the angle zero
\* the element has no transform; cx, cy are the centroid of the vertices and
\* rx, ry half the extent between the vertices 0 and 2 in the frame turned
\* back.
C18_EllipseForEveryAngle ==
    (/\ Called({"napari_write_shapes"})
     /\ ~ForeignExtension(call.path)
     /\ ~HasWrongShape(call.layer_data[1])
     /\ \A j \in 1..Len(call.layer_data[1].data.shapes) :
            ShapeTypeOf(call.layer_data[1], j) = "ellipse")
    => /\ ret.kind = "path"
       /\ Len(converted) = 1
       /\ \A j \in 1..Len(call.layer_data[1].data.shapes) :
            \E k \in 1..Len(converted[1].children) :
              IsEllipseOf(converted[1].children[k], call.layer_data[1].data.shapes[j])

\* the same, for the ellipses whose first edge gives an angle that is not zero
EllipseWhenTurned ==
    (/\ Called({"napari_write_shapes"})
     /\ Len(call.layer_data[1].data.shapes) = 1
     /\ ~IsZero(Turn(Flip(call.layer_data[1].data.shapes[1]))))
    => C18_EllipseForEveryAngle

----------------------------------------------------------------------------
(* rgb images *)

\* the layer ld is one array of shape (H, W, 3) or (H, W, 4), with rgb=True
\* and no transform
IsRgbImage(ld) ==
    /\ ld.kind \in {"image", "labels"}
    /\ ld.meta = [rgb |-> TRUE]
    /\ Len(ld.data.levels) = 1
    /\ Len(ld.data.levels[1]) = 3
    /\ ld.data.levels[1][3] \in {3, 4}

\* C19: for an rgb image of shape (H, W, 3) or (H, W, 4) with rgb=True,
\* image_to_xml succeeds: it returns one image element with width W and
\* height H, and the extrema [[0, 0], [H, W]]; the channel axis takes no part
\* in the extrema.
C19_RgbImageConverts ==
    (/\ Called({"napari_write_image", "napari_write_labels"})
     /\ ~ForeignExtension(call.path)
     /\ IsRgbImage(call.layer_data[1]))
    => /\ ret.kind = "path"
       /\ Len(converted) = 1
       /\ converted[1].tag = "image"
       /\ converted[1].attrs.width = call.layer_data[1].data.levels[1][2]
       /\ converted[1].attrs.height = call.layer_data[1].data.levels[1][1]
       /\ ExtremaOfLayer(call.layer_data[1])
            = << <<Num(0), Num(0)>>,
                 <<Num(call.layer_data[1].data.levels[1][1]),
                   Num(call.layer_data[1].data.levels[1][2])>> >>

----------------------------------------------------------------------------
(* The extrema of a transformed image *)

\* the four corners of an image of shape (H, W), as (row, col)
Corners(shape) ==
    { <<0, 0>>, <<0, shape[2]>>, <<shape[1], 0>>, <<shape[1], shape[2]>> }

\* where the transforms of meta put the corners
TransformedCorners(shape, meta) ==
    { ApplyMatrixAndOffset(make_linear_matrix_and_offset(meta), p) : p \in Corners(shape) }

\* extrema is the bounding box of the points ps: every point is within it,
\* and each bound is the coordinate of some point
IsBoundingBox(extrema, ps) ==
    \A a \in 1..2 :
        /\ ~extrema[1][a].nan
        /\ ~extrema[2][a].nan
        /\ \A p \in ps : extrema[1][a].v <= p[a] /\ p[a] <= extrema[2][a].v
        /\ \E p \in ps : p[a] = extrema[1][a].v
        /\ \E p \in ps : p[a] = extrema[2][a].v

\* the layer ld is one array of shape (H, W), not rgb
Is2DImage(ld) ==
    /\ ld.kind \in {"image", "labels"}
    /\ Len(ld.data.levels) = 1
    /\ Len(ld.data.levels[1]) = 2
    /\ \A a \in 1..2 : ld.data.levels[1][a] > 1
    /\ ~MetaGet(ld.meta, "rgb", FALSE)

\* C20: for an image of shape (H, W) and any transform in the metadata
\* (scale, shear, rotate, translate, affine; negative shear and affine with
\* off-diagonal terms too), the extrema image_to_xml returns is the bounding
\* box of the transformed image: the transformed corners (0, 0), (0, W),
\* (H, 0), (H, W) are all within it and each bound is attained by a corner.
C20_ExtremaIsBoundingBox ==
    (/\ Called({"napari_write_image", "napari_write_labels"})
     /\ ~ForeignExtension(call.path)
     /\ Is2DImage(call.layer_data[1]))
    => /\ ret.kind = "path"
       /\ IsBoundingBox(ExtremaOfLayer(call.layer_data[1]),
                        TransformedCorners(call.layer_data[1].data.levels[1],
                                           call.layer_data[1].meta))

\* the same, for the images whose metadata has only a scale and a translation
BoundingBoxWhenScaled ==
    (/\ Called({"napari_write_image", "napari_write_labels"})
     /\ DOMAIN call.layer_data[1].meta \subseteq {"scale", "translate"})
    => C20_ExtremaIsBoundingBox

----------------------------------------------------------------------------
(* Vectors *)

\* the line element of the vector v = (origin, direction) for the length
LineOf(v, length) ==
    [x1 |-> v[1][2], y1 |-> v[1][1],
     x2 |-> Projected(v[1][2], length, v[2][2]),
     y2 |-> Projected(v[1][1], length, v[2][1])]

\* the number f, a Frac, is between the bounds lo and hi
Within(f, lo, hi) == lo * f.den <= f.num /\ f.num <= hi * f.den

\* the point (row, col) of fractions p after the transform mo = (matrix, offset)
TransformedFrac(mo, p) ==
    [a \in 1..2 |->
        Frac(mo.matrix[a][1] * p[1].num + mo.matrix[a][2] * p[2].num
                + mo.offset[a] * p[1].den,
             p[1].den)]

\* the extrema hold the point p, once transformed
HoldsPoint(extrema, mo, p) ==
    \A a \in 1..2 :
        /\ ~extrema[1][a].nan
        /\ ~extrema[2][a].nan
        /\ Within(TransformedFrac(mo, p)[a], extrema[1][a].v, extrema[2][a].v)

\* origin and projected end of the vector v
EndsOf(v, length) ==
    { <<Frac(length.den * v[1][1], length.den), Frac(length.den * v[1][2], length.den)>>,
      <<Projected(v[1][1], length, v[2][1]), Projected(v[1][2], length, v[2][2])>> }

VectorsConverted ==
    /\ Called({"napari_write_vectors"})
    /\ ~ForeignExtension(call.path)
    /\ call.layer_data[1].data.ncols = 2
    /\ Len(call.layer_data[1].data.vectors) > 0

\* one line per vector, in input order, with the columns as x and the rows as y
OneLinePerVector ==
    VectorsConverted =>
        /\ ret.kind = "path"
        /\ Len(converted) = 1
        /\ Len(converted[1].children) = Len(call.layer_data[1].data.vectors)
        /\ \A i \in 1..Len(converted[1].children) :
             /\ converted[1].children[i].tag = "line"
             /\ [k \in {"x1", "y1", "x2", "y2"} |-> converted[1].children[i].attrs[k]]
                  = LineOf(call.layer_data[1].data.vectors[i],
                           MetaGet(call.layer_data[1].meta, "length", Frac(1, 1)))

\* the extrema hold the origin and the projected end of every vector
ExtremaHoldEnds ==
    VectorsConverted =>
        \A i \in 1..Len(call.layer_data[1].data.vectors) :
            \A p \in EndsOf(call.layer_data[1].data.vectors[i],
                            MetaGet(call.layer_data[1].meta, "length", Frac(1, 1))) :
                HoldsPoint(ExtremaOfLayer(call.layer_data[1]),
                           make_linear_matrix_and_offset(call.layer_data[1].meta), p)

\* C21: vectors_to_xml gives one line element per vector, in input order,
\* with x1 the column and y1 the row of the origin, and x2, y2 the column and
\* row of origin + length * direction; and the extrema it returns hold,
\* after the transform of the layer, the origin and the projected end of
\* every vector, for every length and for negative directions.
C21_LinesAndExtremaOfVectors == OneLinePerVector /\ ExtremaHoldEnds

\* the same, for the arrays of floats
ExtremaHoldEndsOfFloats ==
    (Called({"napari_write_vectors"}) /\ call.layer_data[1].data.dtype = "float")
        => ExtremaHoldEnds

----------------------------------------------------------------------------
(* The style of each shape *)

FaceColorOf(ld, j) ==
    MetaGet(ld.meta, "face_color", Repeat(White, Len(ld.data.shapes)))[j]

\* the layer of the shape j of the layer ld alone, with its own metadata
Alone(ld, j) ==
    [data |-> [shapes |-> <<ld.data.shapes[j]>>],
     meta |-> [k \in DOMAIN ld.meta |->
                 IF k = "opacity" THEN ld.meta[k] ELSE <<ld.meta[k][j]>>]]

\* the element e is styled as the shape j of the layer ld asks, and by
\* nothing else
StyledAsOwnShape(e, ld, j) ==
    /\ e = raw_xml_list(Alone(ld, j).data, Alone(ld, j).meta)[1].xml
    /\ ShapeTypeOf(ld, j) = "path"
         => e.tag = "polyline" /\ e.attrs.fill = [fmt |-> "none"]
    /\ ShapeTypeOf(ld, j) = "polygon"
         => e.tag = "polygon" /\ e.attrs.fill = rgb_string(FaceColorOf(ld, j))
    /\ ("transform" \in DOMAIN e.attrs)
         = (/\ ShapeTypeOf(ld, j) \in {"rectangle", "ellipse"}
            /\ ~IsZero(Turn(Flip(ld.data.shapes[j]))))
    /\ "transform" \in DOMAIN e.attrs
         => e.attrs.transform = RotateAbout(Turn(Flip(ld.data.shapes[j])),
                                            Cen4(Flip(ld.data.shapes[j])))

ShapesConverted ==
    /\ Called({"napari_write_shapes"})
    /\ ret.kind = "path"
    /\ DOMAIN call.layer_data[1].meta
         \subseteq {"shape_type", "face_color", "edge_color", "edge_width",
                    "z_index", "opacity"}

\* C22: in a shapes layer every path is a polyline with fill 'none' whatever
\* its face colour, every polygon has the fill of its own face colour, and
\* what is decided for one shape (the fill 'none' of a path, the rotate
\* transform of a turned rectangle or ellipse) is on the element of no other
\* shape of the layer, in any order of the shape types.
C22_StyleOfOwnShapeOnly ==
    ShapesConverted =>
        /\ Len(converted[1].children) = Len(call.layer_data[1].data.shapes)
        /\ \A j \in 1..Len(call.layer_data[1].data.shapes) :
             \E k \in 1..Len(converted[1].children) :
                StyledAsOwnShape(converted[1].children[k], call.layer_data[1], j)

\* a layer was converted in which a path with a red face comes before a
\* polygon and after a turned rectangle
C22_Witness ==
    /\ ShapesConverted
    /\ "shape_type" \in DOMAIN call.layer_data[1].meta
    /\ call.layer_data[1].meta.shape_type = <<"rectangle", "path", "polygon">>
    /\ call.layer_data[1].data.shapes[1] = RectTurned
    /\ FaceColorOf(call.layer_data[1], 2) = Red
    /\ \E k \in 1..3 : /\ converted[1].children[k].tag = "polyline"
                       /\ converted[1].children[k].attrs.fill = [fmt |-> "none"]

----------------------------------------------------------------------------
(* Colours *)

\* 255 times the channel c, a fraction in [0, 1], rounded to the nearest integer
Round255(c) == (2 * 255 * c.num + c.den) \div (2 * c.den)

\* the rgb string of a colour with every channel rounded; alpha is left out
RoundedRgb(color) ==
    [fmt |-> "rgb", r |-> Round255(color[1]), g |-> Round255(color[2]),
     b |-> Round255(color[3])]

StrokeColorOfPoint(ld, i) ==
    IF "border_color" \in DOMAIN ld.meta THEN ld.meta["border_color"][i]
    ELSE MetaGet(ld.meta, "edge_color", Repeat(Black, Len(ld.data.points)))[i]

\* an element without its colours
Uncoloured(e) == [a \in DOMAIN e.attrs \ {"fill", "stroke"} |-> e.attrs[a]]

\* fill and stroke of the circles of a points layer
PointColoursRounded(ld, g) ==
    \A i \in 1..Len(g.children) :
        /\ g.children[i].attrs.fill
             = RoundedRgb(MetaGet(ld.meta, "face_color",
                                  Repeat(White, Len(ld.data.points)))[i])
        /\ g.children[i].attrs.stroke = RoundedRgb(StrokeColorOfPoint(ld, i))

\* stroke of the lines of a vectors layer
VectorColoursRounded(ld, g) ==
    \A i \in 1..Len(g.children) :
        g.children[i].attrs.stroke
            = RoundedRgb(MetaGet(ld.meta, "edge_color",
                                 Repeat(Black, Len(ld.data.vectors)))[i])

\* fill and stroke of the elements of a shapes layer
ShapeColoursRounded(ld, g) ==
    \A j \in 1..Len(ld.data.shapes) :
        \E k \in 1..Len(g.children) :
            /\ Uncoloured(g.children[k])
                 = Uncoloured(raw_xml_list(ld.data, ld.meta)[j].xml)
            /\ g.children[k].attrs.fill
                 = IF ShapeTypeOf(ld, j) = "path" THEN [fmt |-> "none"]
                   ELSE RoundedRgb(FaceColorOf(ld, j))
            /\ g.children[k].attrs.stroke
                 = RoundedRgb(MetaGet(ld.meta, "edge_color",
                                      Repeat(Black, Len(ld.data.shapes)))[j])

ColoursRounded(ld, g) ==
    CASE ld.kind = "points" -> PointColoursRounded(ld, g)
      [] ld.kind = "vectors" -> VectorColoursRounded(ld, g)
      [] ld.kind = "shapes" -> ShapeColoursRounded(ld, g)
      [] OTHER -> TRUE

\* C23: every fill and stroke colour that points_to_xml, shapes_to_xml and
\* vectors_to_xml write is rgb(r, g, b) with each channel the colour's float
\* in [0, 1] times 255, rounded to the nearest integer (0.5 gives 128); the
\* alpha channel is not written.
C23_ChannelsRounded ==
    Called({"napari_write_points", "napari_write_shapes", "napari_write_vectors"})
        => \A n \in 1..Len(converted) :
              ColoursRounded(call.layer_data[n], converted[n])

\* every colour written has three channels, each an integer from 0 to 255
ChannelsWithinRange ==
    \A n \in 1..Len(converted) :
        \A k \in 1..Len(converted[n].children) :
            \A a \in {"fill", "stroke"} \cap DOMAIN converted[n].children[k].attrs :
                \/ converted[n].children[k].attrs[a] = [fmt |-> "none"]
                \/ /\ DOMAIN converted[n].children[k].attrs[a] = {"fmt", "r", "g", "b"}
                   /\ \A c \in {"r", "g", "b"} :
                        converted[n].children[k].attrs[a][c] \in 0..255

----------------------------------------------------------------------------
(* The stroke width of points *)

\* the stroke width of the point i before the sizes are looked at: a scalar
\* width is the width of every point
WidthOfPoint(meta, n, i) ==
    IF StrokeWidthOf(meta, n).ndim = 0 THEN StrokeWidthOf(meta, n).v
    ELSE StrokeWidthOf(meta, n).v[i]

\* the size of the point i: 1 when there is no size, the mean of its axes
\* when size has two axes
SizeOfPoint(meta, i) ==
    IF "size" \notin DOMAIN meta THEN Frac(1, 1)
    ELSE IF meta.size.ndim = 2
    THEN Frac(meta.size.v[2 * i - 1] + meta.size.v[2 * i], 2)
    ELSE Frac(meta.size.v[i], 1)

\* the stroke width the circle of the point i is to have
StrokeWidthOfPoint(meta, n, i) ==
    IF \/ "border_width_is_relative" \in DOMAIN meta /\ meta.border_width_is_relative
       \/ "edge_width_is_relative" \in DOMAIN meta /\ meta.edge_width_is_relative
    THEN Frac(WidthOfPoint(meta, n, i) * SizeOfPoint(meta, i).num, SizeOfPoint(meta, i).den)
    ELSE Frac(WidthOfPoint(meta, n, i), 1)

PointsCalled ==
    /\ Called({"napari_write_points"})
    /\ ~ForeignExtension(call.path)
    /\ call.layer_data[1].data.ncols = 2
    /\ Len(call.layer_data[1].data.points) > 0

\* C24: in points_to_xml the stroke width is broadcast to one value per point
\* (a scalar width is the width of every point); the circle i has
\* stroke-width = width_i * size_i when border_width_is_relative or
\* edge_width_is_relative is set, and width_i otherwise; without size every
\* point has the size 1, and a size of two axes gives each point the mean of
\* its axes.
C24_StrokeWidthOfPoints ==
    PointsCalled =>
        /\ ret.kind = "path"
        /\ Len(converted) = 1
        /\ Len(converted[1].children) = Len(call.layer_data[1].data.points)
        /\ \A i \in 1..Len(converted[1].children) :
             /\ converted[1].children[i].attrs.stroke_width
                  = StrokeWidthOfPoint(call.layer_data[1].meta,
                                       Len(call.layer_data[1].data.points), i)
             /\ converted[1].children[i].attrs.r
                  = Frac(SizeOfPoint(call.layer_data[1].meta, i).num,
                         2 * SizeOfPoint(call.layer_data[1].meta, i).den)

\* the same, for stroke widths that are floats
StrokeWidthOfFloats ==
    (/\ Called({"napari_write_points"})
     /\ StrokeWidthOf(call.layer_data[1].meta, 0).dtype = "float")
    => C24_StrokeWidthOfPoints

\* two points with a width of their own, relative to sizes of two axes, were
\* converted: the second has the width 3, the size (4 + 4) / 2 and the
\* stroke width 12
StrokeWidthReached ==
    /\ PointsCalled
    /\ ret.kind = "path"
    /\ "border_width_is_relative" \in DOMAIN call.layer_data[1].meta
    /\ Len(converted[1].children) = 2
    /\ converted[1].children[2].attrs.stroke_width = Frac(24, 2)

----------------------------------------------------------------------------
(* Contrast limits *)

ContrastLimitsOf(ld) == MetaGet(ld.meta, "contrast_limits", <<0, 1>>)

\* the fraction f is (v clipped to [lo, hi], less lo) over (hi - lo), or is
\* that difference itself, which is 0, when hi = lo; and lies in [0, 1]
IsNormalized(f, v, lo, hi) ==
    /\ IF hi > lo
       THEN f.den * ((IF v < lo THEN lo ELSE IF v > hi THEN hi ELSE v) - lo)
              = f.num * (hi - lo)
       ELSE f = Frac(0, 1)
    /\ f.den > 0
    /\ 0 <= f.num
    /\ f.num <= f.den

ImageWithPixelsConverted ==
    /\ Called({"napari_write_image", "napari_write_labels"})
    /\ ret.kind = "path"
    /\ "pixels" \in DOMAIN call.layer_data[1].data
    /\ ~MetaGet(call.layer_data[1].meta, "rgb", FALSE)
    /\ ContrastLimitsOf(call.layer_data[1])[1] <= ContrastLimitsOf(call.layer_data[1])[2]

\* C25: for an image that is not rgb and contrast limits [lo, hi] with
\* lo <= hi, the colormap is given (clip(v, lo, hi) - lo) / (hi - lo) for
\* every pixel v when hi > lo, and clip(v, lo, hi) - lo = 0 when hi = lo,
\* without a division; so every normalized pixel is in [0, 1], also for
\* values outside the limits.
C25_NormalizedToUnitRange ==
    ImageWithPixelsConverted =>
        /\ Len(converted[1].attrs.href.pixels) = Len(call.layer_data[1].data.pixels)
        /\ \A i \in 1..Len(call.layer_data[1].data.pixels) :
             IsNormalized(converted[1].attrs.href.pixels[i],
                          call.layer_data[1].data.pixels[i],
                          ContrastLimitsOf(call.layer_data[1])[1],
                          ContrastLimitsOf(call.layer_data[1])[2])

\* an image with pixels below and above its limits [1, 3] was converted: the
\* pixel -1 is given as 0 and the pixel 4 as 1
C25_Witness ==
    /\ ImageWithPixelsConverted
    /\ ContrastLimitsOf(call.layer_data[1]) = <<1, 3>>
    /\ call.layer_data[1].data.pixels[1] = -1
    /\ converted[1].attrs.href.pixels[1] = Frac(0, 2)
    /\ call.layer_data[1].data.pixels[6] = 4
    /\ converted[1].attrs.href.pixels[6] = Frac(2, 2)

----------------------------------------------------------------------------
(* C26: one path rule for every entry point, and it is idempotent *)

EndsWithSvg(p) ==
    /\ Len(p) >= Len(SVG_EXT)
    /\ SubSeq(p, Len(p) - Len(SVG_EXT) + 1, Len(p)) = SVG_EXT

\* every layer type of the call is one of the supported five
AllSupported ==
    \A i \in 1..Len(call.layer_types) :
        call.layer_types[i] \in {"image", "points", "labels", "shapes", "vectors"}

\* the call has layers and none of them makes its conversion raise
Convertible ==
    /\ Len(call.layer_data) > 0
    /\ \A i \in 1..Len(call.layer_data) : ~Raises(call.layer_data[i])

\* napari_get_writer and the writing hooks accept exactly the paths whose
\* extension is empty or '.svg'
SameRuleEverywhere ==
    /\ (Called({"napari_get_writer"}) /\ AllSupported)
          => (ret = ReturnWriter <=> ~ForeignExtension(call.path))
    /\ (Called(WriteCalls) /\ Convertible)
          => (ret.kind = "path" <=> ~ForeignExtension(call.path))

\* a returned path ends with '.svg' and names the file that was written
ReturnedPathIsWritten ==
    (Called(WriteCalls) /\ ret.kind = "path")
        => /\ EndsWithSvg(ret.path)
           /\ Exists(fs, ret.path)
           /\ fs[ret.path] = svg
           /\ DOMAIN fs = DOMAIN fsBefore \cup {ret.path}

\* a returned path, given to the path rule again, is accepted and unchanged
ReturnedPathIsFixed ==
    (Called(WriteCalls) /\ ret.kind = "path")
        => /\ ~ForeignExtension(ret.path)
           /\ PathRule(ret.path) = [ok |-> TRUE, path |-> ret.path]

NamedFile(p) ==
    \E k \in (RFind(p, SEP) + 1)..Len(p) : p[k] # DOT

\* The rule is the same everywhere and returned paths are written; a returned
\* path is a fixed point of the rule when the file has a name.
PathRuleOfNamedFiles ==
    /\ SameRuleEverywhere
    /\ ReturnedPathIsWritten
    /\ NamedFile(call.path) => ReturnedPathIsFixed

\* writer has returned the path of a named file and of a file without a name
PathReturned ==
    /\ Called({"writer"})
    /\ ret.kind = "path"
    /\ NamedFile(call.path)
    /\ NoExtension(call.path)

----------------------------------------------------------------------------
(* C27: the empty layer list *)

\* writer with no layers returns None and leaves the files alone
EmptyListRefused ==
    (Called({"writer"}) /\ Len(call.layer_data) = 0)
        => /\ ret = None
           /\ fs = fsBefore
           /\ svg = NoSvg
           /\ log = <<>>

\* napari_get_writer with no layer types returns the writer for an acceptable path
WriterForNoLayerTypes ==
    (/\ Called({"napari_get_writer"})
     /\ Len(call.layer_types) = 0
     /\ ~ForeignExtension(call.path))
        => ret = ReturnWriter

\* a file is written only after at least one layer was converted
WrittenOnlyAfterConversion ==
    (Called(WriteCalls) /\ (fs # fsBefore \/ ret.kind = "path"))
        => Len(converted) > 0

\* C27: writer(path, layer_data) with an empty layer list returns None and
\* writes no file, even when the path is acceptable and although
\* napari_get_writer returns the writer for an empty layer_types list; a file
\* is written only when at least one layer was converted.
C27_EmptyListWritesNothing ==
    /\ EmptyListRefused
    /\ WriterForNoLayerTypes
    /\ WrittenOnlyAfterConversion

\* writer is called with no layers and a path it accepts, whose file exists
C27_Witness ==
    /\ Called({"writer"})
    /\ Len(call.layer_data) = 0
    /\ call.path = <<"o", ".", "s", "v", "g">>
    /\ Exists(fsBefore, call.path)
    /\ ret = None
    /\ fs[call.path] = OldContent

\* napari_get_writer has returned the writer for no layer types
WriterReturnedForNoLayerTypes ==
    /\ Called({"napari_get_writer"})
    /\ Len(call.layer_types) = 0
    /\ ret = ReturnWriter

----------------------------------------------------------------------------
(* C28: the converters leave their arguments alone *)

====
